---- MODULE Spec2Model ----
(***************************************************************************)
(* The in-memory cache of panoplymedia/local-cache: the sharded            *)
(* MemoryCache (26 maps, one RWMutex each, a shared KeyCount) and the      *)
(* BadgerCache front end that is layered on it (Get, Set, SetWithTTL,      *)
(* SetBatchWithTTL, Fetch, FetchWithTTL, Incr, Stats).                     *)
(*                                                                         *)
(* 64-bit machine words (time.Time's seconds, uint64 counters) are kept    *)
(* at their full width as four 16-bit limbs, most significant first, so    *)
(* that wraparound is computed and not assumed.                            *)
(***************************************************************************)
EXTENDS Integers, Sequences, FiniteSets, TLC

(* ------------------------------ bounds -------------------------------- *)

\* clock ticks in one second (a tick is the resolution of the model clock)
TicksPerSecond == 2

\* the model clock runs from 0 to MaxClock ticks after process start
MaxClock == 3

\* operations one run may start
MaxOps == 2

\* longest key of the key-routing specification, in bytes
MaxKeyLen == 3

\* longest batch handed to SetBatchWithTTL
MaxBatch == 2

(* ------------------------- 64-bit arithmetic -------------------------- *)

LimbBase == 256 * 256

Limbs == 1..4

Word64 == [Limbs -> 0..(LimbBase - 1)]

Zero64 == <<0, 0, 0, 0>>

One64 == <<0, 0, 0, 1>>

\* 2^64 - 1, which is also -1 in two's complement
Ones64 == <<65535, 65535, 65535, 65535>>

\* a small natural number (below 2^31) as a 64-bit word
ToWord64(n) ==
    <<0, (n \div LimbBase) \div LimbBase, (n \div LimbBase) % LimbBase, n % LimbBase>>

RECURSIVE AddLimbs(_, _, _, _)
\* limbs 1..i of a + b + carry, where carry enters at limb i; the carry out
\* of limb 1 is dropped (arithmetic modulo 2^64, as Go's + on (u)int64)
AddLimbs(a, b, i, carry) ==
    IF i = 0 THEN <<>>
    ELSE LET s == a[i] + b[i] + carry
         IN  Append(AddLimbs(a, b, i - 1, s \div LimbBase), s % LimbBase)

Add64(a, b) == AddLimbs(a, b, 4, 0)

\* the top limb read as a signed number (two's complement int64)
SignedTop(a) == IF a[1] >= 32768 THEN a[1] - LimbBase ELSE a[1]

\* a < b on int64
Less64(a, b) ==
    \/ SignedTop(a) < SignedTop(b)
    \/ a[1] = b[1] /\ a[2] < b[2]
    \/ a[1] = b[1] /\ a[2] = b[2] /\ a[3] < b[3]
    \/ a[1] = b[1] /\ a[2] = b[2] /\ a[3] = b[3] /\ a[4] < b[4]

(* ------------------------------ time.Time ------------------------------ *)

\* seconds from year 1 to 1970: Go's unixToInternal, 62135596800
UnixToInternal == <<0, 14, 30609, 63232>>

\* math.MaxInt64, the value of the constant expression 1<<63-1
MaxInt64 == <<32767, 65535, 65535, 65535>>

\* Unix time at which the process starts: 1700000000
StartUnix == <<0, 0, 25939, 61696>>

\* the ttl values callers pass, in ticks: 0, one tick below a second, 1 s
TTLs == {0, TicksPerSecond - 1, TicksPerSecond}

\* time.Unix(sec, nsec): the instant keeps sec + unixToInternal as an int64
Unix(sec, frac) == [sec |-> Add64(sec, UnixToInternal), frac |-> frac]

\* time.Now().UTC() when the model clock shows c ticks
TimeNow(c) ==
    [sec  |-> Add64(Add64(StartUnix, UnixToInternal), ToWord64(c \div TicksPerSecond)),
     frac |-> c % TicksPerSecond]

\* t.Add(d) for a duration of d >= 0 ticks
TimeAdd(t, d) ==
    LET f == t.frac + d
    IN  [sec |-> Add64(t.sec, ToWord64(f \div TicksPerSecond)), frac |-> f % TicksPerSecond]

\* t.Before(u): seconds compared as int64, then the fraction
Before(t, u) == Less64(t.sec, u.sec) \/ (t.sec = u.sec /\ t.frac < u.frac)

(* ------------------------------ key routing ---------------------------- *)

\* the bytes keys are built from: 'a', 'z', 'B', '1', and the bytes of U+212A
\* KELVIN SIGN (E2 84 AA), whose lower case is the ASCII letter 'k'
KeyBytes == {97, 122, 66, 49, 226, 132, 170}

RECURSIVE SeqsUpTo(_, _)
SeqsUpTo(S, n) ==
    IF n = 0 THEN {<<>>}
    ELSE LET shorter == SeqsUpTo(S, n - 1)
         IN  shorter \cup {Append(s, b) : s \in shorter, b \in S}

ShardKeys == SeqsUpTo(KeyBytes, MaxKeyLen)

Fault == 0 - 1

NotRouted == 0 - 2

LowerByte(c) == IF c >= 65 /\ c <= 90 THEN c + 32 ELSE c

IsCont(c) == c >= 128 /\ c <= 191

\* lead bytes E1..EC start a three-byte sequence with two continuation bytes
IsLead3(c) == c >= 225 /\ c <= 236

\* unicode.ToLower on the runes the key bytes can spell
UnicodeToLower(r) ==
    IF r < 128 THEN LowerByte(r)
    ELSE IF r = 8490 THEN 107
    ELSE r

\* utf8 encoding of a rune below U+10000
EncodeRune(r) ==
    IF r < 128 THEN <<r>>
    ELSE IF r < 2048 THEN <<192 + (r \div 64), 128 + (r % 64)>>
    ELSE <<224 + (r \div 4096), 128 + ((r \div 64) % 64), 128 + (r % 64)>>

RECURSIVE MapToLower(_, _)
\* strings.Map(unicode.ToLower, s) from byte i on: an invalid byte becomes
\* U+FFFD (EF BF BD)
MapToLower(s, i) ==
    IF i > Len(s) THEN <<>>
    ELSE IF s[i] < 128 THEN <<LowerByte(s[i])>> \o MapToLower(s, i + 1)
    ELSE IF IsLead3(s[i]) /\ i + 2 <= Len(s) /\ IsCont(s[i + 1]) /\ IsCont(s[i + 2])
         THEN LET r == (s[i] - 224) * 4096 + (s[i + 1] - 128) * 64 + (s[i + 2] - 128)
              IN  EncodeRune(UnicodeToLower(r)) \o MapToLower(s, i + 3)
    ELSE <<239, 191, 189>> \o MapToLower(s, i + 1)

\* strings.ToLower
ToLower(s) == MapToLower(s, 1)

\* keyToShard without the case folding
keyToShardNoFold(key) ==
    IF Len(key) = 0 THEN Fault
    ELSE LET i == key[1]
         IN  (IF i < 97 \/ i > 122 THEN 122 ELSE i) - 97

\* keyToShard: indexing byte 0 of an empty string faults (index out of range)
keyToShard(key) ==
    LET l == ToLower(key)
    IN  IF Len(l) = 0 THEN Fault
        ELSE LET i == l[1]
             IN  (IF i < 97 \/ i > 122 THEN 122 ELSE i) - 97

(* ------------------------- values and counters ------------------------ *)

\* uint64ToBytes: the eight bytes of a counter, most significant first
uint64ToBytes(w) ==
    <<w[1] \div 256, w[1] % 256, w[2] \div 256, w[2] % 256,
      w[3] \div 256, w[3] % 256, w[4] \div 256, w[4] % 256>>

\* bytesToUint64: the counter held in eight bytes
bytesToUint64(b) ==
    <<b[1] * 256 + b[2], b[3] * 256 + b[4], b[5] * 256 + b[6], b[7] * 256 + b[8]>>

\* the deltas callers pass to Incr: 1, 2 and 2^64 - 1
Deltas == {One64, <<0, 0, 0, 2>>, Ones64}

\* the values callers store and loaders return
Vals == {uint64ToBytes(<<0, 0, 0, 5>>), uint64ToBytes(<<0, 0, 0, 9>>)}

\* the keys callers use: "a", "1" and the empty key
Keys == {<<97>>, <<49>>, <<>>}

\* the key the concurrent-increment runs share
CounterKey == <<97>>

\* the keys of the runs that do not look at the empty key: "a" and "1"
SomeKeys == {<<97>>, <<49>>}

Pairs == {<<k, v>> : k \in Keys, v \in Vals}

Batches == SeqsUpTo(Pairs, MaxBatch)

(* ------------------------------- state --------------------------------- *)

Procs == {"p1", "p2"}

None == "none"

Shards == 0..25

ZeroTime == [sec |-> Zero64, frac |-> 0]

\* the zero cacheElement a map lookup yields for an absent key
NoElement == [expiresAt |-> ZeroTime, dat |-> <<>>]

VARIABLES
    Dat,        \* MemoryCache.Dat: shard -> (key -> cacheElement)
    mu,         \* MemoryCache.mu: shard -> [r: readers, w: writer]
    KeyCount,   \* MemoryCache.KeyCount, a uint64
    cmu,        \* BadgerCache.mu: its holder, or None
    TTL,        \* BadgerCache.TTL, in ticks
    clock,      \* ticks since process start
    crashed,    \* a panic has ended the process
    active,     \* the goroutines of this run
    pc,         \* goroutine -> where it stands
    call,       \* goroutine -> the operation it runs and its arguments
    loc,        \* goroutine -> its local variables
    pre,        \* goroutine -> Dat and KeyCount as its operation began
    ops,        \* operations started so far
    sumD,       \* the deltas of the Incr calls started so far, added up
    expiries,   \* some Read has found an expired entry
    lastW,      \* key -> the clock, ttl and value of its last Write, and if by Incr
    rkey,       \* key routing: the key handed to keyToShard
    ridx,       \* key routing: what keyToShard returned
    made,       \* the NewCache call: whether made, its argument and its error
    net,        \* Writes completed minus evictions completed, a uint64
    rewritten,  \* some Write has replaced an entry that was still in the map
    one,        \* the single-lock MemoryCache: its variant, map and KeyCount
    db          \* the badger database: key -> value

vars ==
    <<Dat, mu, KeyCount, cmu, TTL, clock, crashed, active, pc, call, loc, pre,
      ops, sumD, expiries, lastW, rkey, ridx, made, net, rewritten, one, db>>

storeVars == <<Dat, mu, KeyCount, cmu>>

ghostVars == <<sumD, expiries, lastW, net, rewritten>>

routeVars == <<rkey, ridx>>

NoCall == [op |-> None, key |-> <<>>, val |-> <<>>, ttl |-> 0, d |-> Zero64, batch |-> <<>>]

FreeLock == [r |-> {}, w |-> None]

NoLoc ==
    [idx |-> 0, el |-> NoElement, exists |-> FALSE, found |-> FALSE, val |-> <<>>,
     wkey |-> <<>>, wval |-> <<>>, wttl |-> 0, e |-> ZeroTime, tmp |-> Zero64,
     newVal |-> Zero64, i |-> 0, loads |-> 0, ret |-> <<>>, n |-> Zero64, err |-> "nil",
     rnow |-> 0, wnow |-> 0, lfail |-> FALSE, lval |-> <<>>, raced |-> FALSE,
     cacheMiss |-> FALSE, rfail |-> FALSE, wfail |-> FALSE,
     xl |-> FALSE, delHad |-> FALSE, delEl |-> NoElement, delAt |-> 0,
     m |-> [mu |-> FreeLock, KeyCount |-> Zero64], badUnlock |-> FALSE]

NoPre == [Dat |-> <<>>, KeyCount |-> Zero64]

NoWrite == [set |-> FALSE, w |-> 0, ttl |-> 0, val |-> <<>>, incr |-> FALSE]

\* MapPut that leaves an entry already there as it is
MapPutKeep(m, k, c) ==
    IF k \in DOMAIN m THEN m
    ELSE [x \in (DOMAIN m) \cup {k} |-> IF x = k THEN c ELSE m[x]]

\* a map with key k set to c
MapPut(m, k, c) == [x \in (DOMAIN m) \cup {k} |-> IF x = k THEN c ELSE m[x]]

\* delete(m, k)
MapDelete(m, k) == [x \in (DOMAIN m) \ {k} |-> m[x]]

\* the 26 empty maps newMemoryCache makes
EmptyDat == [i \in Shards |-> <<>>]

\* newMemoryCache: 26 empty maps, unlocked, KeyCount 0
newMemoryCache ==
    /\ Dat = EmptyDat
    /\ mu = [i \in Shards |-> FreeLock]
    /\ KeyCount = Zero64

\* no single-lock MemoryCache in this run
NoStore == [kind |-> None, Dat |-> <<>>, KeyCount |-> Zero64]

\* no call of NewCache yet
NotMade == [called |-> FALSE, t |-> 0, err |-> "nil"]

\* NewCache(t) has returned err
Made(t, err) == [called |-> TRUE, t |-> t, err |-> err]

\* NewCache that takes any default TTL
NewCacheAny(t) == TRUE

\* NewCache(t) refuses a default TTL with 0 < t < 1 second
NewCacheOk(t) == ~(t < TicksPerSecond /\ t > 0)

\* the state NewCache(t) leaves, before any goroutine runs
Constructed ==
    /\ newMemoryCache
    /\ cmu = None
    /\ TTL \in {t \in TTLs : NewCacheOk(t)}
    /\ made = Made(TTL, "nil")
    /\ net = Zero64
    /\ rewritten = FALSE
    /\ one = NoStore
    /\ db = <<>>
    /\ clock = 0
    /\ crashed = FALSE
    /\ pc = [p \in Procs |-> "idle"]
    /\ call = [p \in Procs |-> NoCall]
    /\ loc = [p \in Procs |-> NoLoc]
    /\ pre = [p \in Procs |-> NoPre]
    /\ ops = 0
    /\ sumD = Zero64
    /\ expiries = FALSE
    /\ lastW = [k \in Keys |-> NoWrite]

\* the default TTLs handed to NewCache: those of TTLs and one above a second
NewTTLs == TTLs \cup {TicksPerSecond + 1}

\* before NewCache is called: no store, no caller
Unconstructed ==
    /\ Dat = <<>>
    /\ mu = <<>>
    /\ KeyCount = Zero64
    /\ cmu = None
    /\ TTL = 0
    /\ made = NotMade
    /\ net = Zero64
    /\ rewritten = FALSE
    /\ one = NoStore
    /\ db = <<>>
    /\ clock = 0
    /\ crashed = FALSE
    /\ pc = [p \in Procs |-> "idle"]
    /\ call = [p \in Procs |-> NoCall]
    /\ loc = [p \in Procs |-> NoLoc]
    /\ pre = [p \in Procs |-> NoPre]
    /\ ops = 0
    /\ sumD = Zero64
    /\ expiries = FALSE
    /\ lastW = [k \in Keys |-> NoWrite]

\* NewCache(t): for 0 < t < 1 second an error and a BadgerCache without a
\* store; otherwise a cache over newMemoryCache() with TTL t, and its caller
\* goes on to use it
NewCache(t) ==
    /\ ~made.called
    /\ IF NewCacheOk(t)
       THEN /\ Dat' = EmptyDat
            /\ mu' = [i \in Shards |-> FreeLock]
            /\ KeyCount' = Zero64
            /\ TTL' = t
            /\ active' = {"p1"}
            /\ made' = Made(t, "nil")
       ELSE /\ made' = Made(t, "TTL must be >= 1 second")
            /\ UNCHANGED <<Dat, mu, KeyCount, TTL, active>>
    /\ UNCHANGED <<cmu, clock, crashed, pc, call, loc, pre, ops, ghostVars, rkey, ridx,
                   one, db>>

(* --------------------------- MemoryCache.Read -------------------------- *)

\* what no step of an operation on the sharded cache changes
envVars == <<TTL, clock, active, rkey, ridx, made, one, db>>

\* changed only when an operation starts
callVars == <<call, pre, ops>>

At(p, l) == ~crashed /\ p \in active /\ pc[p] = l

Goto(p, l) == pc' = [pc EXCEPT ![p] = l]

\* keyToShard(key) indexes an empty string: the goroutine panics
ReadPanic(p) ==
    /\ At(p, "read")
    /\ keyToShard(call[p].key) = Fault
    /\ crashed' = TRUE
    /\ Goto(p, "panic")
    /\ UNCHANGED <<storeVars, envVars, callVars, ghostVars, loc>>

\* ReadRLock that takes the exclusive lock
ReadRLockExclusive(p) ==
    /\ At(p, "read")
    /\ LET idx == keyToShard(call[p].key)
       IN  /\ idx # Fault
           /\ mu[idx] = FreeLock
           /\ mu' = [mu EXCEPT ![idx].w = p]
           /\ loc' = [loc EXCEPT ![p].idx = idx, ![p].xl = TRUE]
    /\ Goto(p, "lookup")
    /\ UNCHANGED <<Dat, KeyCount, cmu, envVars, callVars, ghostVars, crashed>>

\* idx := keyToShard(key); m.mu[idx].RLock()
ReadRLock(p) ==
    /\ At(p, "read")
    /\ LET idx == keyToShard(call[p].key)
       IN  /\ idx # Fault
           /\ mu[idx].w = None
           /\ mu' = [mu EXCEPT ![idx].r = @ \cup {p}]
           /\ loc' = [loc EXCEPT ![p].idx = idx]
    /\ Goto(p, "lookup")
    /\ UNCHANGED <<Dat, KeyCount, cmu, envVars, callVars, ghostVars, crashed>>

\* ReadLookup without the RUnlock
ReadLookupKeepsRLock(p) ==
    /\ At(p, "lookup")
    /\ LET idx == loc[p].idx
           k   == call[p].key
           ex  == k \in DOMAIN Dat[idx]
       IN  loc' = [loc EXCEPT ![p].exists = ex,
                              ![p].el = IF ex THEN Dat[idx][k] ELSE NoElement]
    /\ Goto(p, "check")
    /\ UNCHANGED <<storeVars, envVars, callVars, ghostVars, crashed>>

\* el, exists := m.Dat[idx][key]; m.mu[idx].RUnlock()
ReadLookup(p) ==
    /\ At(p, "lookup")
    /\ LET idx == loc[p].idx
           k   == call[p].key
           ex  == k \in DOMAIN Dat[idx]
       IN  /\ loc' = [loc EXCEPT ![p].exists = ex,
                                 ![p].el = IF ex THEN Dat[idx][k] ELSE NoElement]
           /\ mu' = [mu EXCEPT ![idx].r = @ \ {p}]
    /\ Goto(p, "check")
    /\ UNCHANGED <<Dat, KeyCount, cmu, envVars, callVars, ghostVars, crashed>>

\* Unexpired with the comparison turned round: expiresAt.Before(now)
UnexpiredFlipped(c, el) == Before(el.expiresAt, TimeNow(c))

\* Unexpired that still counts the instant of expiry as unexpired
UnexpiredInclusive(c, el) == ~Before(el.expiresAt, TimeNow(c))

\* time.Now().UTC().Before(el.expiresAt), with the clock at c
Unexpired(c, el) == Before(TimeNow(c), el.expiresAt)

\* ReadCheck that returns every entry it finds, expired or not
ReadCheckNoExpiry(p) ==
    /\ At(p, "check")
    /\ IF loc[p].exists
       THEN loc' = [loc EXCEPT ![p].found = TRUE, ![p].val = loc[p].el.dat,
                               ![p].rnow = clock]
       ELSE loc' = [loc EXCEPT ![p].found = FALSE, ![p].val = <<>>,
                               ![p].rnow = clock]
    /\ Goto(p, "afterRead")
    /\ UNCHANGED <<storeVars, envVars, callVars, ghostVars, crashed>>

\* if exists && Before(...) { return el.dat, true } else if exists { evict }
\* return []byte{}, false
ReadCheck(p) ==
    /\ At(p, "check")
    /\ IF loc[p].exists /\ Unexpired(clock, loc[p].el)
       THEN /\ loc' = [loc EXCEPT ![p].found = TRUE, ![p].val = loc[p].el.dat,
                                  ![p].rnow = clock]
            /\ Goto(p, "afterRead")
            /\ UNCHANGED expiries
       ELSE IF loc[p].exists
       THEN /\ loc' = [loc EXCEPT ![p].rnow = clock]
            /\ Goto(p, "evict")
            /\ expiries' = TRUE
       ELSE /\ loc' = [loc EXCEPT ![p].found = FALSE, ![p].val = <<>>,
                                  ![p].rnow = clock]
            /\ Goto(p, "afterRead")
            /\ UNCHANGED expiries
    /\ UNCHANGED <<storeVars, envVars, callVars, sumD, lastW, net, rewritten, crashed>>

\* m.mu[idx].Lock()
ReadLock(p) ==
    /\ At(p, "evict")
    /\ mu[loc[p].idx] = FreeLock
    /\ mu' = [mu EXCEPT ![loc[p].idx].w = p]
    /\ loc' = [loc EXCEPT ![p].xl = TRUE]
    /\ Goto(p, "del")
    /\ UNCHANGED <<Dat, KeyCount, cmu, envVars, callVars, ghostVars, crashed>>

\* delete(m.Dat[idx], key), and the load of m.KeyCount--
ReadDelete(p) ==
    /\ At(p, "del")
    /\ Dat' = [Dat EXCEPT ![loc[p].idx] = MapDelete(@, call[p].key)]
    /\ loc' = [loc EXCEPT ![p].tmp = KeyCount,
                          ![p].delHad = (call[p].key \in DOMAIN Dat[loc[p].idx]),
                          ![p].delEl = IF call[p].key \in DOMAIN Dat[loc[p].idx]
                                       THEN Dat[loc[p].idx][call[p].key] ELSE NoElement,
                          ![p].delAt = clock]
    /\ Goto(p, "dec")
    /\ UNCHANGED <<mu, KeyCount, cmu, envVars, callVars, ghostVars, crashed>>

\* ReadDec that leaves m.KeyCount as it is
ReadDecNoCount(p) ==
    /\ At(p, "dec")
    /\ mu' = [mu EXCEPT ![loc[p].idx].w = None]
    /\ loc' = [loc EXCEPT ![p].found = FALSE, ![p].val = <<>>]
    /\ net' = Add64(net, Ones64)
    /\ Goto(p, "afterRead")
    /\ UNCHANGED <<Dat, KeyCount, cmu, envVars, callVars, sumD, expiries, lastW, rewritten,
                   crashed>>

\* the store of m.KeyCount--; m.mu[idx].Unlock(); return []byte{}, false
ReadDec(p) ==
    /\ At(p, "dec")
    /\ KeyCount' = Add64(loc[p].tmp, Ones64)
    /\ mu' = [mu EXCEPT ![loc[p].idx].w = None]
    /\ loc' = [loc EXCEPT ![p].found = FALSE, ![p].val = <<>>]
    /\ net' = Add64(net, Ones64)
    /\ Goto(p, "afterRead")
    /\ UNCHANGED <<Dat, cmu, envVars, callVars, sumD, expiries, lastW, rewritten, crashed>>

(* --------------------------- MemoryCache.Write ------------------------- *)

\* the expiry Write stores for a ttl, with time.Now().UTC() = now
ExpiresAt(now, ttl) ==
    IF ttl = 0 THEN Unix(MaxInt64, 0) ELSE TimeAdd(now, ttl)

\* keyToShard(key) indexes an empty string: the goroutine panics
WritePanic(p) ==
    /\ At(p, "write")
    /\ keyToShard(loc[p].wkey) = Fault
    /\ crashed' = TRUE
    /\ Goto(p, "panic")
    /\ UNCHANGED <<storeVars, envVars, callVars, ghostVars, loc>>

\* idx := keyToShard(key); e := the expiry for ttl
WriteExpiry(p) ==
    /\ At(p, "write")
    /\ LET idx == keyToShard(loc[p].wkey)
       IN  /\ idx # Fault
           /\ loc' = [loc EXCEPT ![p].idx = idx,
                                 ![p].e = ExpiresAt(TimeNow(clock), loc[p].wttl),
                                 ![p].wnow = clock]
    /\ Goto(p, "wlock")
    /\ UNCHANGED <<storeVars, envVars, callVars, ghostVars, crashed>>

\* WriteLock that does not wait for the lock to be free
WriteLockNoWait(p) ==
    /\ At(p, "wlock")
    /\ mu' = [mu EXCEPT ![loc[p].idx].w = p]
    /\ loc' = [loc EXCEPT ![p].xl = TRUE]
    /\ Goto(p, "wstore")
    /\ UNCHANGED <<Dat, KeyCount, cmu, envVars, callVars, ghostVars, crashed>>

\* m.mu[idx].Lock()
WriteLock(p) ==
    /\ At(p, "wlock")
    /\ mu[loc[p].idx] = FreeLock
    /\ mu' = [mu EXCEPT ![loc[p].idx].w = p]
    /\ loc' = [loc EXCEPT ![p].xl = TRUE]
    /\ Goto(p, "wstore")
    /\ UNCHANGED <<Dat, KeyCount, cmu, envVars, callVars, ghostVars, crashed>>

\* WriteStore that keeps the expiry of an entry already in the map
WriteStoreKeepsExpiry(p) ==
    /\ At(p, "wstore")
    /\ Dat' = [Dat EXCEPT ![loc[p].idx] =
                  MapPut(@, loc[p].wkey,
                         [expiresAt |-> IF loc[p].wkey \in DOMAIN @
                                        THEN @[loc[p].wkey].expiresAt ELSE loc[p].e,
                          dat |-> loc[p].wval])]
    /\ loc' = [loc EXCEPT ![p].tmp = KeyCount]
    /\ lastW' = [lastW EXCEPT ![loc[p].wkey] =
                    [set |-> TRUE, w |-> loc[p].wnow, ttl |-> loc[p].wttl,
                     val |-> loc[p].wval, incr |-> call[p].op = "Incr"]]
    /\ rewritten' = (rewritten \/ loc[p].wkey \in DOMAIN Dat[loc[p].idx])
    /\ Goto(p, "winc")
    /\ UNCHANGED <<mu, KeyCount, cmu, envVars, callVars, sumD, expiries, net, crashed>>

\* WriteStore that puts every key in the map of shard 25
WriteStoreLastShard(p) ==
    /\ At(p, "wstore")
    /\ Dat' = [Dat EXCEPT ![25] =
                  MapPut(@, loc[p].wkey, [expiresAt |-> loc[p].e, dat |-> loc[p].wval])]
    /\ loc' = [loc EXCEPT ![p].tmp = KeyCount]
    /\ lastW' = [lastW EXCEPT ![loc[p].wkey] =
                    [set |-> TRUE, w |-> loc[p].wnow, ttl |-> loc[p].wttl,
                     val |-> loc[p].wval, incr |-> call[p].op = "Incr"]]
    /\ rewritten' = (rewritten \/ loc[p].wkey \in DOMAIN Dat[loc[p].idx])
    /\ Goto(p, "winc")
    /\ UNCHANGED <<mu, KeyCount, cmu, envVars, callVars, sumD, expiries, net, crashed>>

\* m.Dat[idx][key] = c, and the load of m.KeyCount++
WriteStore(p) ==
    /\ At(p, "wstore")
    /\ Dat' = [Dat EXCEPT ![loc[p].idx] =
                  MapPut(@, loc[p].wkey, [expiresAt |-> loc[p].e, dat |-> loc[p].wval])]
    /\ loc' = [loc EXCEPT ![p].tmp = KeyCount]
    /\ lastW' = [lastW EXCEPT ![loc[p].wkey] =
                    [set |-> TRUE, w |-> loc[p].wnow, ttl |-> loc[p].wttl,
                     val |-> loc[p].wval, incr |-> call[p].op = "Incr"]]
    /\ rewritten' = (rewritten \/ loc[p].wkey \in DOMAIN Dat[loc[p].idx])
    /\ Goto(p, "winc")
    /\ UNCHANGED <<mu, KeyCount, cmu, envVars, callVars, sumD, expiries, net, crashed>>

\* the store of m.KeyCount++; m.mu[idx].Unlock()
WriteInc(p) ==
    /\ At(p, "winc")
    /\ KeyCount' = Add64(loc[p].tmp, One64)
    /\ mu' = [mu EXCEPT ![loc[p].idx].w = None]
    /\ net' = Add64(net, One64)
    /\ Goto(p, "afterWrite")
    /\ UNCHANGED <<Dat, cmu, envVars, callVars, sumD, expiries, lastW, rewritten, crashed,
                   loc>>

(* ------------------------------ BadgerCache ---------------------------- *)

\* goroutine p calls an operation: c is the call, lc its locals, l its first step
Begin(p, c, lc, l) ==
    /\ At(p, "idle")
    /\ ops < MaxOps
    /\ ops' = ops + 1
    /\ call' = [call EXCEPT ![p] = c]
    /\ loc' = [loc EXCEPT ![p] = lc]
    /\ pre' = [pre EXCEPT ![p] = [Dat |-> Dat, KeyCount |-> KeyCount]]
    /\ Goto(p, l)

\* Get(k): val, exists := c.db.Read(string(k))
Get(p, k) ==
    /\ Begin(p, [NoCall EXCEPT !.op = "Get", !.key = k], NoLoc, "read")
    /\ UNCHANGED <<storeVars, envVars, ghostVars, crashed>>

\* if exists { return val, nil }; return []byte{}, errors.New("key not found")
GetReturn(p) ==
    /\ At(p, "afterRead")
    /\ call[p].op = "Get"
    /\ loc' = [loc EXCEPT ![p].ret = IF loc[p].found THEN loc[p].val ELSE <<>>,
                          ![p].err = IF loc[p].found THEN "nil" ELSE "key not found"]
    /\ Goto(p, "done")
    /\ UNCHANGED <<storeVars, envVars, callVars, ghostVars, crashed>>

\* SetWithTTL(k, v, ttl): c.db.Write(string(k), v, ttl)
SetWithTTL(p, k, v, ttl) ==
    /\ Begin(p, [NoCall EXCEPT !.op = "SetWithTTL", !.key = k, !.val = v, !.ttl = ttl],
             [NoLoc EXCEPT !.wkey = k, !.wval = v, !.wttl = ttl], "write")
    /\ UNCHANGED <<storeVars, envVars, ghostVars, crashed>>

\* Set(k, v): return c.SetWithTTL(k, v, c.TTL)
Set(p, k, v) == SetWithTTL(p, k, v, TTL)

\* return nil
SetReturn(p) ==
    /\ At(p, "afterWrite")
    /\ call[p].op = "SetWithTTL"
    /\ loc' = [loc EXCEPT ![p].err = "nil"]
    /\ Goto(p, "done")
    /\ UNCHANGED <<storeVars, envVars, callVars, ghostVars, crashed>>

\* SetBatchWithTTL(k, v, ttl): for i := range k { c.db.Write(k[i], v[i], ttl) }
SetBatchWithTTL(p, b, ttl) ==
    /\ Begin(p, [NoCall EXCEPT !.op = "SetBatchWithTTL", !.batch = b, !.ttl = ttl],
             IF Len(b) = 0 THEN NoLoc
             ELSE [NoLoc EXCEPT !.i = 1, !.wkey = b[1][1], !.wval = b[1][2], !.wttl = ttl],
             IF Len(b) = 0 THEN "done" ELSE "write")
    /\ UNCHANGED <<storeVars, envVars, ghostVars, crashed>>

\* SetBatch(k, v): return c.SetBatchWithTTL(k, v, c.TTL)
SetBatch(p, b) == SetBatchWithTTL(p, b, TTL)

\* the next round of the loop, or return nil
BatchNext(p) ==
    /\ At(p, "afterWrite")
    /\ call[p].op = "SetBatchWithTTL"
    /\ LET b == call[p].batch
           i == loc[p].i + 1
       IN  IF i <= Len(b)
           THEN /\ loc' = [loc EXCEPT ![p].i = i, ![p].wkey = b[i][1], ![p].wval = b[i][2]]
                /\ Goto(p, "write")
           ELSE /\ loc' = [loc EXCEPT ![p].err = "nil"]
                /\ Goto(p, "done")
    /\ UNCHANGED <<storeVars, envVars, callVars, ghostVars, crashed>>

\* FetchWithTTL(k, l, ttl): val, exists := c.db.Read(string(k))
FetchWithTTL(p, k, ttl) ==
    /\ Begin(p, [NoCall EXCEPT !.op = "FetchWithTTL", !.key = k, !.ttl = ttl], NoLoc, "read")
    /\ UNCHANGED <<storeVars, envVars, ghostVars, crashed>>

\* Fetch(k, l): return c.FetchWithTTL(k, l, c.TTL)
Fetch(p, k) == FetchWithTTL(p, k, TTL)

\* another FetchWithTTL of the same key has missed in its Read and has not
\* stored its value yet
Racing(p) ==
    \E q \in active \ {p} :
        /\ call[q].op = "FetchWithTTL"
        /\ call[q].key = call[p].key
        /\ ~loc[q].found
        /\ pc[q] \in {"afterRead", "loading", "write", "wlock", "wstore"}

\* FetchAfterRead that calls no loader while another Fetch of the key is
\* loading: it reads again
FetchAfterReadSingleFlight(p) ==
    /\ At(p, "afterRead")
    /\ call[p].op = "FetchWithTTL"
    /\ IF loc[p].found
       THEN /\ loc' = [loc EXCEPT ![p].ret = loc[p].val, ![p].err = "nil"]
            /\ Goto(p, "done")
       ELSE IF Racing(p)
       THEN /\ loc' = [loc EXCEPT ![p].raced = TRUE]
            /\ Goto(p, "read")
       ELSE /\ loc' = [loc EXCEPT ![p].loads = @ + 1]
            /\ Goto(p, "loading")
    /\ UNCHANGED <<storeVars, envVars, callVars, ghostVars, crashed>>

\* if exists { return val, nil }; otherwise l.CacheMiss(string(k)) is called
FetchAfterRead(p) ==
    /\ At(p, "afterRead")
    /\ call[p].op = "FetchWithTTL"
    /\ IF loc[p].found
       THEN /\ loc' = [loc EXCEPT ![p].ret = loc[p].val, ![p].err = "nil"]
            /\ Goto(p, "done")
       ELSE /\ loc' = [loc EXCEPT ![p].loads = @ + 1, ![p].raced = Racing(p)]
            /\ Goto(p, "loading")
    /\ UNCHANGED <<storeVars, envVars, callVars, ghostVars, crashed>>

\* FetchLoaded that writes with the cache's default TTL, not the ttl passed
FetchLoadedDefaultTTL(p, v) ==
    /\ At(p, "loading")
    /\ loc' = [loc EXCEPT ![p].ret = v, ![p].wkey = call[p].key, ![p].wval = v,
                          ![p].wttl = TTL, ![p].lval = v]
    /\ Goto(p, "write")
    /\ UNCHANGED <<storeVars, envVars, callVars, ghostVars, crashed>>

\* CacheMiss returns v, nil: c.db.Write(string(k), ret, ttl) follows
FetchLoaded(p, v) ==
    /\ At(p, "loading")
    /\ loc' = [loc EXCEPT ![p].ret = v, ![p].wkey = call[p].key, ![p].wval = v,
                          ![p].wttl = call[p].ttl, ![p].lval = v]
    /\ Goto(p, "write")
    /\ UNCHANGED <<storeVars, envVars, callVars, ghostVars, crashed>>

\* FetchLoadFailed that goes on to write what the failed loader returned
FetchLoadFailedStores(p) ==
    /\ At(p, "loading")
    /\ loc' = [loc EXCEPT ![p].ret = <<>>, ![p].err = "loader failed", ![p].lfail = TRUE,
                          ![p].wkey = call[p].key, ![p].wval = <<>>,
                          ![p].wttl = call[p].ttl]
    /\ Goto(p, "write")
    /\ UNCHANGED <<storeVars, envVars, callVars, ghostVars, crashed>>

\* CacheMiss returns an error: return ret, err
FetchLoadFailed(p) ==
    /\ At(p, "loading")
    /\ loc' = [loc EXCEPT ![p].ret = <<>>, ![p].err = "loader failed",
                          ![p].lfail = TRUE]
    /\ Goto(p, "done")
    /\ UNCHANGED <<storeVars, envVars, callVars, ghostVars, crashed>>

\* return ret, nil
FetchReturn(p) ==
    /\ At(p, "afterWrite")
    /\ call[p].op = "FetchWithTTL"
    /\ loc' = [loc EXCEPT ![p].err = "nil"]
    /\ Goto(p, "done")
    /\ UNCHANGED <<storeVars, envVars, callVars, ghostVars, crashed>>

\* Incr(k, v)
Incr(p, k, d) ==
    /\ Begin(p, [NoCall EXCEPT !.op = "Incr", !.key = k, !.d = d], NoLoc, "ilock")
    /\ sumD' = Add64(sumD, d)
    /\ UNCHANGED <<storeVars, envVars, expiries, lastW, net, rewritten, crashed>>

\* IncrLock that does not wait for c.mu
IncrNoLock(p) ==
    /\ At(p, "ilock")
    /\ cmu' = p
    /\ Goto(p, "read")
    /\ UNCHANGED <<Dat, mu, KeyCount, envVars, callVars, ghostVars, crashed, loc>>

\* c.mu.Lock(); then val, exists := c.db.Read(string(k))
IncrLock(p) ==
    /\ At(p, "ilock")
    /\ cmu = None
    /\ cmu' = p
    /\ Goto(p, "read")
    /\ UNCHANGED <<Dat, mu, KeyCount, envVars, callVars, ghostVars, crashed, loc>>

\* IncrAfterRead that stops at 2^64 - 1 where the sum would wrap
IncrAfterReadSaturating(p) ==
    /\ At(p, "afterRead")
    /\ call[p].op = "Incr"
    /\ LET c == IF loc[p].found THEN bytesToUint64(loc[p].val) ELSE Zero64
           sum == Add64(c, call[p].d)
           wrapped == \E i \in Limbs :
                          /\ sum[i] < c[i]
                          /\ \A j \in Limbs : j < i => sum[j] = c[j]
           newVal == IF wrapped THEN Ones64 ELSE sum
       IN  loc' = [loc EXCEPT ![p].newVal = newVal, ![p].wkey = call[p].key,
                              ![p].wval = uint64ToBytes(newVal), ![p].wttl = TTL]
    /\ Goto(p, "write")
    /\ UNCHANGED <<storeVars, envVars, callVars, ghostVars, crashed>>

\* IncrAfterRead that writes with ttl 0, not with c.TTL
IncrAfterReadNoTTL(p) ==
    /\ At(p, "afterRead")
    /\ call[p].op = "Incr"
    /\ LET newVal == IF loc[p].found
                     THEN Add64(bytesToUint64(loc[p].val), call[p].d)
                     ELSE call[p].d
       IN  loc' = [loc EXCEPT ![p].newVal = newVal, ![p].wkey = call[p].key,
                              ![p].wval = uint64ToBytes(newVal), ![p].wttl = 0]
    /\ Goto(p, "write")
    /\ UNCHANGED <<storeVars, envVars, callVars, ghostVars, crashed>>

\* newVal = bytesToUint64(val) + v, or v; c.db.Write(k, uint64ToBytes(newVal), c.TTL)
IncrAfterRead(p) ==
    /\ At(p, "afterRead")
    /\ call[p].op = "Incr"
    /\ LET newVal == IF loc[p].found
                     THEN Add64(bytesToUint64(loc[p].val), call[p].d)
                     ELSE call[p].d
       IN  loc' = [loc EXCEPT ![p].newVal = newVal, ![p].wkey = call[p].key,
                              ![p].wval = uint64ToBytes(newVal), ![p].wttl = TTL]
    /\ Goto(p, "write")
    /\ UNCHANGED <<storeVars, envVars, callVars, ghostVars, crashed>>

\* IncrReturn that leaves c.mu locked
IncrReturnKeepsLock(p) ==
    /\ At(p, "afterWrite")
    /\ call[p].op = "Incr"
    /\ loc' = [loc EXCEPT ![p].n = loc[p].newVal, ![p].err = "nil"]
    /\ Goto(p, "done")
    /\ UNCHANGED <<storeVars, envVars, callVars, ghostVars, crashed>>

\* return newVal, nil, and the deferred c.mu.Unlock()
IncrReturn(p) ==
    /\ At(p, "afterWrite")
    /\ call[p].op = "Incr"
    /\ loc' = [loc EXCEPT ![p].n = loc[p].newVal, ![p].err = "nil"]
    /\ cmu' = None
    /\ Goto(p, "done")
    /\ UNCHANGED <<Dat, mu, KeyCount, envVars, callVars, ghostVars, crashed>>

\* Stats(): LSMSize and VLogSize are both int64(c.db.KeyCount); the call
\* starts no Read and no Write and is not counted against MaxOps
Stats(p) ==
    /\ At(p, "idle")
    /\ call' = [call EXCEPT ![p] = [NoCall EXCEPT !.op = "Stats"]]
    /\ loc' = [loc EXCEPT ![p] = [NoLoc EXCEPT !.n = KeyCount]]
    /\ pre' = [pre EXCEPT ![p] = [Dat |-> Dat, KeyCount |-> KeyCount]]
    /\ Goto(p, "done")
    /\ UNCHANGED <<storeVars, envVars, ghostVars, crashed, ops>>

(* ------------------- OmniCache over a cache.Conn ----------------------- *)

\* what a read of the backend (Conn.Read, txn.Get and item.Value) can give:
\* a stored value, key-not-found, or another failure
ReadOutcomes ==
    {[kind |-> "hit", val |-> v] : v \in Vals}
        \cup {[kind |-> "key not found", val |-> <<>>], [kind |-> "read failed", val |-> <<>>]}

\* OmniCache.FetchWithTTL(k, b, ttl): ret, err := oc.Conn.Read(k)
OmniFetchWithTTL(p, k, ttl) ==
    /\ Begin(p, [NoCall EXCEPT !.op = "OmniFetchWithTTL", !.key = k, !.ttl = ttl], NoLoc,
             "connRead")
    /\ UNCHANGED <<storeVars, envVars, ghostVars, crashed>>

\* OmniCache.Fetch(k, b): ret, err := oc.Conn.Read(k)
OmniFetch(p, k) ==
    /\ Begin(p, [NoCall EXCEPT !.op = "OmniFetch", !.key = k], NoLoc, "connRead")
    /\ UNCHANGED <<storeVars, envVars, ghostVars, crashed>>

\* oc.Conn.Read(k) returns; if err != nil the loader b.CacheMiss is called,
\* otherwise return ret, err
ConnRead(p, out) ==
    /\ At(p, "connRead")
    /\ IF out.kind = "hit"
       THEN /\ loc' = [loc EXCEPT ![p].ret = out.val, ![p].err = "nil", ![p].found = TRUE]
            /\ Goto(p, "done")
       ELSE /\ loc' = [loc EXCEPT ![p].ret = <<>>, ![p].err = out.kind,
                                  ![p].rfail = (out.kind = "read failed"),
                                  ![p].loads = @ + 1]
            /\ Goto(p, "omniLoading")
    /\ UNCHANGED <<storeVars, envVars, callVars, ghostVars, crashed>>

\* b.CacheMiss returns v, nil: oc.Conn.Write or oc.Conn.WriteTTL follows
OmniLoaded(p, v) ==
    /\ At(p, "omniLoading")
    /\ loc' = [loc EXCEPT ![p].ret = v, ![p].err = "nil", ![p].lval = v]
    /\ Goto(p, "connWrite")
    /\ UNCHANGED <<storeVars, envVars, callVars, ghostVars, crashed>>

\* b.CacheMiss returns an error: return ret, err
OmniLoadFailed(p) ==
    /\ At(p, "omniLoading")
    /\ loc' = [loc EXCEPT ![p].ret = <<>>, ![p].err = "loader failed", ![p].lfail = TRUE]
    /\ Goto(p, "done")
    /\ UNCHANGED <<storeVars, envVars, callVars, ghostVars, crashed>>

\* err = oc.Conn.Write(k, ret) (or WriteTTL), which succeeds or fails; then
\* return ret, err
ConnWrite(p, ok) ==
    /\ At(p, "connWrite")
    /\ loc' = [loc EXCEPT ![p].err = IF ok THEN "nil" ELSE "write failed",
                          ![p].wfail = ~ok]
    /\ Goto(p, "done")
    /\ UNCHANGED <<storeVars, envVars, callVars, ghostVars, crashed>>

(* ------------------- BadgerCache over a badger.DB ---------------------- *)

\* BadgerCache.FetchWithTTL(k, l, ttl) of the badger-backed cache: c.db.View
DbFetchWithTTL(p, k, ttl) ==
    /\ Begin(p, [NoCall EXCEPT !.op = "DbFetchWithTTL", !.key = k, !.ttl = ttl], NoLoc,
             "dbView")
    /\ UNCHANGED <<storeVars, envVars, ghostVars, crashed>>

\* BadgerCache.Fetch(k, l): return c.FetchWithTTL(k, l, c.TTL)
DbFetch(p, k) == DbFetchWithTTL(p, k, TTL)

\* the View transaction: ErrKeyNotFound sets cacheMiss and gives a nil error,
\* another failure of txn.Get or item.Value is View's error; without a miss
\* return ret, err
DbView(p, out) ==
    /\ At(p, "dbView")
    /\ IF out.kind = "key not found"
       THEN /\ loc' = [loc EXCEPT ![p].cacheMiss = TRUE, ![p].err = "nil",
                                  ![p].loads = @ + 1]
            /\ Goto(p, "dbLoading")
       ELSE /\ loc' = [loc EXCEPT ![p].ret = out.val,
                                  ![p].err = IF out.kind = "hit" THEN "nil" ELSE out.kind,
                                  ![p].found = (out.kind = "hit"),
                                  ![p].rfail = (out.kind = "read failed")]
            /\ Goto(p, "done")
    /\ UNCHANGED <<storeVars, envVars, callVars, ghostVars, crashed>>

\* l.CacheMiss returns v, nil: c.db.Update follows
DbLoaded(p, v) ==
    /\ At(p, "dbLoading")
    /\ loc' = [loc EXCEPT ![p].ret = v, ![p].err = "nil", ![p].lval = v]
    /\ Goto(p, "dbUpdate")
    /\ UNCHANGED <<storeVars, envVars, callVars, ghostVars, crashed>>

\* l.CacheMiss returns an error: return ret, err
DbLoadFailed(p) ==
    /\ At(p, "dbLoading")
    /\ loc' = [loc EXCEPT ![p].ret = <<>>, ![p].err = "loader failed", ![p].lfail = TRUE]
    /\ Goto(p, "done")
    /\ UNCHANGED <<storeVars, envVars, callVars, ghostVars, crashed>>

\* c.db.Update(setWithTTL(txn, k, ret, ttl)): setWithTTL refuses a ttl with
\* 0 < ttl < 1 second and the transaction may fail; the error Update returns
\* is dropped, and ret, err is returned with the loader's nil err
DbUpdate(p, ok) ==
    /\ At(p, "dbUpdate")
    /\ loc' = [loc EXCEPT ![p].wfail =
                   (~ok \/ (call[p].ttl < TicksPerSecond /\ call[p].ttl > 0))]
    /\ Goto(p, "done")
    /\ UNCHANGED <<storeVars, envVars, callVars, ghostVars, crashed>>

\* add, the merge function handed to GetMergeOperator: the sum of the two
\* counters, as eight bytes
add(existing, new) == uint64ToBytes(Add64(bytesToUint64(existing), bytesToUint64(new)))

\* the batches handed to the badger-backed SetBatch: keys and values in order
DbBatches == SeqsUpTo({<<k, v>> : k \in SomeKeys, v \in Vals}, MaxBatch)

\* key k is in the database and badger has not expired it
DbLive(k) == k \in DOMAIN db /\ (db[k].exp = 0 \/ clock < db[k].exp)

\* setWithTTL(txn, k, v, ttl) refuses a ttl with 0 < ttl < 1 second
DbTTLRefused(ttl) == ttl < TicksPerSecond /\ ttl > 0

\* setWithTTL(txn, k, v, ttl) in a transaction that commits: txn.SetWithTTL
\* for ttl > 0, txn.Set, which never expires, otherwise
DbPut(d, k, v, ttl) == MapPut(d, k, [dat |-> v, exp |-> IF ttl > 0 THEN clock + ttl ELSE 0])

\* BadgerCache.SetBatchWithTTL(k, v, ttl) of the badger-backed cache
DbSetBatchWithTTL(p, b, ttl) ==
    /\ Begin(p, [NoCall EXCEPT !.op = "DbSetBatchWithTTL", !.batch = b, !.ttl = ttl], NoLoc,
             "dbBatch")
    /\ UNCHANGED <<storeVars, envVars, ghostVars, crashed>>

\* BadgerCache.SetBatch(k, v): return c.SetBatchWithTTL(k, v, c.TTL)
DbSetBatch(p, b) == DbSetBatchWithTTL(p, b, TTL)

\* c.db.Update(for i := range k { return setWithTTL(txn, k[i], v[i], ttl) };
\* return nil): the first round of the loop returns from the transaction, so
\* only k[0] is set; the transaction commits or fails
DbBatchUpdate(p, ok) ==
    /\ At(p, "dbBatch")
    /\ LET b == call[p].batch
           refused == Len(b) > 0 /\ DbTTLRefused(call[p].ttl)
       IN  /\ db' = IF Len(b) = 0 \/ refused \/ ~ok THEN db
                    ELSE DbPut(db, b[1][1], b[1][2], call[p].ttl)
           /\ loc' = [loc EXCEPT ![p].i = IF Len(b) = 0 THEN 0 ELSE 1,
                                 ![p].err = IF refused THEN "TTL must be >= 1 second"
                                            ELSE IF ok THEN "nil" ELSE "write failed",
                                 ![p].wfail = ~ok]
    /\ Goto(p, "done")
    /\ UNCHANGED <<storeVars, TTL, clock, active, rkey, ridx, made, one, callVars,
                   ghostVars, crashed>>

\* BadgerCache.Incr(k, v) of the badger-backed cache: b, err := c.Get(k)
DbIncr(p, k, d) ==
    /\ Begin(p, [NoCall EXCEPT !.op = "DbIncr", !.key = k, !.d = d], NoLoc, "dbIncrGet")
    /\ sumD' = Add64(sumD, d)
    /\ UNCHANGED <<storeVars, envVars, expiries, lastW, net, rewritten, crashed>>

\* c.Get(k) returns: ErrKeyNotFound leads to SetWithTTL, another error is
\* returned with bytesToUint64(b), and a value leads to the merge operator
DbIncrGet(p, fail) ==
    /\ At(p, "dbIncrGet")
    /\ IF fail
       THEN /\ loc' = [loc EXCEPT ![p].err = "read failed", ![p].rfail = TRUE]
            /\ Goto(p, "done")
       ELSE IF DbLive(call[p].key)
       THEN /\ loc' = [loc EXCEPT ![p].found = TRUE, ![p].val = db[call[p].key].dat]
            /\ Goto(p, "dbIncrMerge")
       ELSE /\ loc' = [loc EXCEPT ![p].err = "key not found"]
            /\ Goto(p, "dbIncrSet")
    /\ UNCHANGED <<storeVars, envVars, callVars, ghostVars, crashed>>

\* err = c.SetWithTTL(k, uint64ToBytes(v), 0): the delta is stored whatever
\* the key holds by now; return v, nil, or 0, err
DbIncrSet(p, ok) ==
    /\ At(p, "dbIncrSet")
    /\ IF ok
       THEN /\ db' = DbPut(db, call[p].key, uint64ToBytes(call[p].d), 0)
            /\ loc' = [loc EXCEPT ![p].n = call[p].d, ![p].err = "nil"]
       ELSE /\ db' = db
            /\ loc' = [loc EXCEPT ![p].n = Zero64, ![p].err = "write failed",
                                  ![p].wfail = TRUE]
    /\ Goto(p, "done")
    /\ UNCHANGED <<storeVars, TTL, clock, active, rkey, ridx, made, one, callVars,
                   ghostVars, crashed>>

\* m.Add(uint64ToBytes(v)) and m.Get() of the merge operator, and the
\* deferred m.Stop(): add is folded over what the key holds, the entry keeps
\* its expiry; return bytesToUint64(b), nil, or 0, err
DbIncrMerge(p, ok) ==
    /\ At(p, "dbIncrMerge")
    /\ LET k == call[p].key
           v == IF DbLive(k) THEN add(db[k].dat, uint64ToBytes(call[p].d))
                ELSE uint64ToBytes(call[p].d)
       IN  IF ok
           THEN /\ db' = MapPut(db, k, [dat |-> v,
                                        exp |-> IF DbLive(k) THEN db[k].exp ELSE 0])
                /\ loc' = [loc EXCEPT ![p].n = bytesToUint64(v), ![p].err = "nil"]
           ELSE /\ db' = db
                /\ loc' = [loc EXCEPT ![p].n = Zero64, ![p].err = "merge failed",
                                      ![p].wfail = TRUE]
    /\ Goto(p, "done")
    /\ UNCHANGED <<storeVars, TTL, clock, active, rkey, ridx, made, one, callVars,
                   ghostVars, crashed>>

(* ------------- MemoryCache with one lock and value receivers ----------- *)

\* what no step on the single-lock MemoryCache changes
notOne == <<storeVars, TTL, clock, active, rkey, ridx, made, db, ghostVars>>

\* the receiver of a call: Read and Write are declared on MemoryCache, not on
\* *MemoryCache, so each call works on its own copy of the struct, with a
\* lock of its own that nobody holds and the KeyCount of that moment; the
\* copy's Dat is the one shared map
Receiver == [mu |-> FreeLock, KeyCount |-> one.KeyCount]

\* m.Read(key) on the single-lock MemoryCache
OneRead(p, k) ==
    /\ one.kind # None
    /\ Begin(p, [NoCall EXCEPT !.op = "OneRead", !.key = k],
             [NoLoc EXCEPT !.m = Receiver],
             IF one.kind = "Mutex" THEN "oLock" ELSE "oRLock")
    /\ UNCHANGED <<storeVars, envVars, ghostVars, crashed>>

\* m.Write(key, val, ttl) on the single-lock MemoryCache
OneWrite(p, k, v, ttl) ==
    /\ one.kind # None
    /\ Begin(p, [NoCall EXCEPT !.op = "OneWrite", !.key = k, !.val = v, !.ttl = ttl],
             [NoLoc EXCEPT !.m = Receiver, !.wkey = k, !.wval = v, !.wttl = ttl],
             IF one.kind = "Mutex" THEN "oLock" ELSE "oExpiry")
    /\ UNCHANGED <<storeVars, envVars, ghostVars, crashed>>

\* m.mu.Lock(), on the receiver's lock
OneLock(p) ==
    /\ At(p, "oLock")
    /\ loc[p].m.mu = FreeLock
    /\ loc' = [loc EXCEPT ![p].m.mu = [r |-> {}, w |-> p], ![p].xl = TRUE]
    /\ Goto(p, IF call[p].op = "OneRead"
               THEN (IF one.kind = "Mutex" THEN "oLookup" ELSE "oDelete")
               ELSE (IF one.kind = "Mutex" THEN "oExpiry" ELSE "oStore"))
    /\ UNCHANGED <<notOne, one, callVars, crashed>>

\* m.mu.RLock(), on the receiver's lock
OneRLock(p) ==
    /\ At(p, "oRLock")
    /\ loc[p].m.mu.w = None
    /\ loc' = [loc EXCEPT ![p].m.mu.r = @ \cup {p}]
    /\ Goto(p, "oLookup")
    /\ UNCHANGED <<notOne, one, callVars, crashed>>

\* el, exists := m.Dat[key]
OneLookup(p) ==
    /\ At(p, "oLookup")
    /\ LET k == call[p].key
           has == k \in DOMAIN one.Dat
       IN  loc' = [loc EXCEPT ![p].exists = has,
                              ![p].el = IF has THEN one.Dat[k] ELSE NoElement]
    /\ Goto(p, IF one.kind = "Mutex" THEN "oCheck" ELSE "oUnlockFirst")
    /\ UNCHANGED <<notOne, one, callVars, crashed>>

\* m.mu.Unlock() after m.mu.RLock(): a lock its caller holds exclusively is
\* released; Unlock of a lock held only shared, or not at all, ends the
\* process with "sync: Unlock of unlocked RWMutex"
OneUnlockFirst(p) ==
    /\ At(p, "oUnlockFirst")
    /\ IF loc[p].m.mu.w = p
       THEN /\ loc' = [loc EXCEPT ![p].m.mu = FreeLock]
            /\ Goto(p, "oCheck")
            /\ UNCHANGED crashed
       ELSE /\ loc' = [loc EXCEPT ![p].badUnlock = TRUE]
            /\ Goto(p, "panic")
            /\ crashed' = TRUE
    /\ UNCHANGED <<notOne, one, callVars>>

\* if exists && time.Now().UTC().Before(el.expiresAt) { return el.dat, true }
\* else if exists { evict }; return []byte{}, false
OneCheck(p) ==
    /\ At(p, "oCheck")
    /\ IF loc[p].exists /\ Unexpired(clock, loc[p].el)
       THEN /\ loc' = [loc EXCEPT ![p].found = TRUE, ![p].val = loc[p].el.dat,
                                  ![p].rnow = clock]
            /\ Goto(p, IF one.kind = "Mutex" THEN "oUnlock" ELSE "done")
       ELSE IF loc[p].exists
       THEN /\ loc' = [loc EXCEPT ![p].rnow = clock]
            /\ Goto(p, IF one.kind = "Mutex" THEN "oDelete" ELSE "oLock")
       ELSE /\ loc' = [loc EXCEPT ![p].found = FALSE, ![p].val = <<>>, ![p].rnow = clock]
            /\ Goto(p, IF one.kind = "Mutex" THEN "oUnlock" ELSE "done")
    /\ UNCHANGED <<notOne, one, callVars, crashed>>

\* delete(m.Dat, key), on the shared map; with a KeyCount, m.KeyCount-- on
\* the receiver
OneDelete(p) ==
    /\ At(p, "oDelete")
    /\ one' = [one EXCEPT !.Dat = MapDelete(@, call[p].key)]
    /\ loc' = [loc EXCEPT ![p].m.KeyCount =
                   IF one.kind = "Mutex" THEN @ ELSE Add64(@, Ones64)]
    /\ Goto(p, "oUnlock")
    /\ UNCHANGED <<notOne, callVars, crashed>>

\* e = time.Unix(1<<63-1, 0) for ttl 0, time.Now().UTC().Add(ttl) otherwise
OneExpiry(p) ==
    /\ At(p, "oExpiry")
    /\ loc' = [loc EXCEPT ![p].e = ExpiresAt(TimeNow(clock), loc[p].wttl),
                          ![p].wnow = clock]
    /\ Goto(p, IF one.kind = "Mutex" THEN "oStore" ELSE "oLock")
    /\ UNCHANGED <<notOne, one, callVars, crashed>>

\* m.Dat[key] = c, on the shared map
OneStore(p) ==
    /\ At(p, "oStore")
    /\ one' = [one EXCEPT !.Dat = MapPut(@, loc[p].wkey,
                                         [expiresAt |-> loc[p].e, dat |-> loc[p].wval])]
    /\ Goto(p, IF one.kind = "Mutex" THEN "oUnlock" ELSE "oInc")
    /\ UNCHANGED <<notOne, callVars, crashed, loc>>

\* m.KeyCount++, on the receiver
OneInc(p) ==
    /\ At(p, "oInc")
    /\ loc' = [loc EXCEPT ![p].m.KeyCount = Add64(@, One64)]
    /\ Goto(p, "oUnlock")
    /\ UNCHANGED <<notOne, one, callVars, crashed>>

\* m.mu.Unlock() of the lock taken by m.mu.Lock(), and return; the receiver
\* is dropped with the call
OneUnlock(p) ==
    /\ At(p, "oUnlock")
    /\ IF loc[p].m.mu.w = p
       THEN /\ loc' = [loc EXCEPT ![p].m.mu = FreeLock]
            /\ Goto(p, "done")
            /\ UNCHANGED crashed
       ELSE /\ loc' = [loc EXCEPT ![p].badUnlock = TRUE]
            /\ Goto(p, "panic")
            /\ crashed' = TRUE
    /\ UNCHANGED <<notOne, one, callVars>>

\* goroutine p is between the lock and the unlock of its receiver
OneInside(p) == loc[p].m.mu # FreeLock

\* a write of the shared map while another goroutine is at the map too: the
\* runtime may end the process with "concurrent map writes" (or "concurrent
\* map read and map write"), or the access may go through
OneMapFault(p) ==
    /\ ~crashed
    /\ p \in active
    /\ pc[p] \in {"oStore", "oDelete"}
    /\ \E q \in active \ {p} : OneInside(q)
    /\ crashed' = TRUE
    /\ Goto(p, "panic")
    /\ UNCHANGED <<notOne, one, callVars, loc>>

\* the caller has its result and is free to call again
Return(p) ==
    /\ At(p, "done")
    /\ call' = [call EXCEPT ![p] = NoCall]
    /\ loc' = [loc EXCEPT ![p] = NoLoc]
    /\ pre' = [pre EXCEPT ![p] = NoPre]
    /\ Goto(p, "idle")
    /\ UNCHANGED <<storeVars, envVars, ghostVars, crashed, ops>>

\* time passes
Tick ==
    /\ ~crashed
    /\ clock < MaxClock
    /\ clock' = clock + 1
    /\ UNCHANGED <<storeVars, TTL, active, rkey, ridx, made, one, db, callVars, ghostVars,
                   crashed, pc, loc>>

(* ---------------------------- specifications --------------------------- *)

\* the steps inside MemoryCache.Read and MemoryCache.Write
ReadStep(p) ==
    \/ ReadRLock(p) \/ ReadLookup(p) \/ ReadCheck(p)
    \/ ReadLock(p) \/ ReadDelete(p) \/ ReadDec(p)

WriteStep(p) ==
    \/ WriteExpiry(p) \/ WriteLock(p) \/ WriteStore(p) \/ WriteInc(p)

\* one caller, one operation at a time
Init ==
    /\ Constructed
    /\ active = {"p1"}
    /\ rkey = <<>>
    /\ ridx = NotRouted

Next ==
    \/ \E p \in Procs, k \in Keys : Get(p, k) \/ Fetch(p, k)
    \/ \E p \in Procs, k \in Keys, v \in Vals : Set(p, k, v)
    \/ \E p \in Procs, k \in Keys, v \in Vals, t \in TTLs : SetWithTTL(p, k, v, t)
    \/ \E p \in Procs, k \in Keys, t \in TTLs : FetchWithTTL(p, k, t)
    \/ \E p \in Procs : ReadPanic(p) \/ WritePanic(p)
    \/ \E p \in Procs : ReadStep(p)
    \/ \E p \in Procs : WriteStep(p)
    \/ \E p \in Procs : GetReturn(p) \/ SetReturn(p)
    \/ \E p \in Procs : FetchAfterRead(p) \/ FetchLoadFailed(p) \/ FetchReturn(p)
    \/ \E p \in Procs, v \in Vals : FetchLoaded(p, v)
    \/ \E p \in Procs : Return(p)
    \/ Tick

Spec == Init /\ [][Next]_vars

\* concurrent callers that only increment one counter
InitIncr ==
    /\ Constructed
    /\ active = Procs
    /\ rkey = <<>>
    /\ ridx = NotRouted

NextIncr ==
    \/ \E p \in Procs, d \in Deltas : Incr(p, CounterKey, d)
    \/ \E p \in Procs : IncrLock(p) \/ IncrAfterRead(p) \/ IncrReturn(p)
    \/ \E p \in Procs : ReadStep(p)
    \/ \E p \in Procs : WriteStep(p)
    \/ \E p \in Procs : Return(p)
    \/ Tick

SpecIncr == InitIncr /\ [][NextIncr]_vars

\* concurrent callers that get, set and fetch keys of two shards
InitConc ==
    /\ Constructed
    /\ active = Procs
    /\ rkey = <<>>
    /\ ridx = NotRouted

NextConc ==
    \/ \E p \in Procs, k \in SomeKeys : Get(p, k) \/ Fetch(p, k)
    \/ \E p \in Procs, k \in SomeKeys, v \in Vals : Set(p, k, v)
    \/ \E p \in Procs : ReadStep(p)
    \/ \E p \in Procs : WriteStep(p)
    \/ \E p \in Procs : GetReturn(p) \/ SetReturn(p)
    \/ \E p \in Procs : FetchAfterRead(p) \/ FetchLoadFailed(p) \/ FetchReturn(p)
    \/ \E p \in Procs, v \in Vals : FetchLoaded(p, v)
    \/ \E p \in Procs : Return(p)
    \/ Tick

SpecConc == InitConc /\ [][NextConc]_vars

\* one caller constructs the cache and uses it, one operation after another
InitSeq ==
    /\ Unconstructed
    /\ active = {}
    /\ rkey = <<>>
    /\ ridx = NotRouted

NextSeq ==
    \/ \E t \in NewTTLs : NewCache(t)
    \/ \E p \in Procs, k \in SomeKeys : Get(p, k) \/ Fetch(p, k)
    \/ \E p \in Procs, k \in SomeKeys, v \in Vals : Set(p, k, v)
    \/ \E p \in Procs, k \in SomeKeys, d \in Deltas : Incr(p, k, d)
    \/ \E p \in Procs : Stats(p)
    \/ \E p \in Procs : ReadStep(p)
    \/ \E p \in Procs : WriteStep(p)
    \/ \E p \in Procs : GetReturn(p) \/ SetReturn(p)
    \/ \E p \in Procs : FetchAfterRead(p) \/ FetchLoadFailed(p) \/ FetchReturn(p)
    \/ \E p \in Procs, v \in Vals : FetchLoaded(p, v)
    \/ \E p \in Procs : IncrLock(p) \/ IncrAfterRead(p) \/ IncrReturn(p)
    \/ \E p \in Procs : Return(p)
    \/ Tick

SpecSeq == InitSeq /\ [][NextSeq]_vars

\* the value of the entry the eviction runs start with
SeedVal == uint64ToBytes(<<0, 0, 0, 5>>)

\* concurrent callers get and set keys of a cache that holds one entry: the
\* state after NewCache and one Set of CounterKey that has returned
InitEvict ==
    /\ TTL \in {t \in TTLs : NewCacheOk(t)}
    /\ made = Made(TTL, "nil")
    /\ Dat = [EmptyDat EXCEPT ![keyToShard(CounterKey)] =
                  MapPut(<<>>, CounterKey,
                         [expiresAt |-> ExpiresAt(TimeNow(0), TTL), dat |-> SeedVal])]
    /\ mu = [i \in Shards |-> FreeLock]
    /\ KeyCount = One64
    /\ cmu = None
    /\ net = One64
    /\ rewritten = FALSE
    /\ one = NoStore
    /\ db = <<>>
    /\ clock = 0
    /\ crashed = FALSE
    /\ pc = [p \in Procs |-> "idle"]
    /\ call = [p \in Procs |-> NoCall]
    /\ loc = [p \in Procs |-> NoLoc]
    /\ pre = [p \in Procs |-> NoPre]
    /\ ops = 0
    /\ sumD = Zero64
    /\ expiries = FALSE
    /\ lastW = [k \in Keys |->
                   IF k = CounterKey
                   THEN [set |-> TRUE, w |-> 0, ttl |-> TTL, val |-> SeedVal, incr |-> FALSE]
                   ELSE NoWrite]
    /\ active = Procs
    /\ rkey = <<>>
    /\ ridx = NotRouted

NextEvict ==
    \/ \E p \in Procs, k \in SomeKeys : Get(p, k)
    \/ \E p \in Procs, k \in SomeKeys, v \in Vals : Set(p, k, v)
    \/ \E p \in Procs : ReadStep(p)
    \/ \E p \in Procs : WriteStep(p)
    \/ \E p \in Procs : GetReturn(p) \/ SetReturn(p)
    \/ \E p \in Procs : Return(p)
    \/ Tick

SpecEvict == InitEvict /\ [][NextEvict]_vars

\* concurrent callers that increment and set keys of two shards
InitMix ==
    /\ Constructed
    /\ active = Procs
    /\ rkey = <<>>
    /\ ridx = NotRouted

NextMix ==
    \/ \E p \in Procs, k \in SomeKeys, d \in Deltas : Incr(p, k, d)
    \/ \E p \in Procs, k \in SomeKeys, v \in Vals : Set(p, k, v)
    \/ \E p \in Procs : IncrLock(p) \/ IncrAfterRead(p) \/ IncrReturn(p)
    \/ \E p \in Procs : ReadStep(p)
    \/ \E p \in Procs : WriteStep(p)
    \/ \E p \in Procs : SetReturn(p)
    \/ \E p \in Procs : Return(p)
    \/ Tick

SpecMix == InitMix /\ [][NextMix]_vars

\* one caller fetches through an OmniCache and through a badger-backed
\* BadgerCache, whose backends answer as they will
NextBackend ==
    \/ \E p \in Procs, k \in SomeKeys : OmniFetch(p, k) \/ DbFetch(p, k)
    \/ \E p \in Procs, k \in SomeKeys, t \in TTLs : OmniFetchWithTTL(p, k, t)
    \/ \E p \in Procs, k \in SomeKeys, t \in TTLs : DbFetchWithTTL(p, k, t)
    \/ \E p \in Procs, out \in ReadOutcomes : ConnRead(p, out) \/ DbView(p, out)
    \/ \E p \in Procs, v \in Vals : OmniLoaded(p, v) \/ DbLoaded(p, v)
    \/ \E p \in Procs : OmniLoadFailed(p) \/ DbLoadFailed(p)
    \/ \E p \in Procs, ok \in BOOLEAN : ConnWrite(p, ok) \/ DbUpdate(p, ok)
    \/ \E p \in Procs : Return(p)
    \/ Tick

SpecBackend == Init /\ [][NextBackend]_vars

\* concurrent callers that increment counters and set batches in a
\* badger-backed BadgerCache
InitDb ==
    /\ Constructed
    /\ active = Procs
    /\ rkey = <<>>
    /\ ridx = NotRouted

NextDb ==
    \/ \E p \in Procs, b \in DbBatches : DbSetBatch(p, b)
    \/ \E p \in Procs, b \in DbBatches, t \in TTLs : DbSetBatchWithTTL(p, b, t)
    \/ \E p \in Procs, ok \in BOOLEAN : DbBatchUpdate(p, ok)
    \/ \E p \in Procs, k \in SomeKeys, d \in Deltas : DbIncr(p, k, d)
    \/ \E p \in Procs, fail \in BOOLEAN : DbIncrGet(p, fail)
    \/ \E p \in Procs, ok \in BOOLEAN : DbIncrSet(p, ok) \/ DbIncrMerge(p, ok)
    \/ \E p \in Procs : Return(p)
    \/ Tick

SpecDb == InitDb /\ [][NextDb]_vars

\* concurrent callers read and write a single-lock MemoryCache, of the
\* sync.Mutex variant or of the sync.RWMutex variant
InitOne ==
    /\ TTL \in {t \in TTLs : NewCacheOk(t)}
    /\ made = Made(TTL, "nil")
    /\ newMemoryCache
    /\ cmu = None
    /\ net = Zero64
    /\ rewritten = FALSE
    /\ one \in {[kind |-> k, Dat |-> <<>>, KeyCount |-> Zero64] : k \in {"Mutex", "RWMutex"}}
    /\ db = <<>>
    /\ clock = 0
    /\ crashed = FALSE
    /\ pc = [p \in Procs |-> "idle"]
    /\ call = [p \in Procs |-> NoCall]
    /\ loc = [p \in Procs |-> NoLoc]
    /\ pre = [p \in Procs |-> NoPre]
    /\ ops = 0
    /\ sumD = Zero64
    /\ expiries = FALSE
    /\ lastW = [k \in Keys |-> NoWrite]
    /\ active = Procs
    /\ rkey = <<>>
    /\ ridx = NotRouted

NextOne ==
    \/ \E p \in Procs, k \in SomeKeys : OneRead(p, k)
    \/ \E p \in Procs, k \in SomeKeys, v \in Vals : OneWrite(p, k, v, TTL)
    \/ \E p \in Procs : OneLock(p) \/ OneRLock(p) \/ OneUnlockFirst(p) \/ OneUnlock(p)
    \/ \E p \in Procs : OneLookup(p) \/ OneCheck(p) \/ OneDelete(p)
    \/ \E p \in Procs : OneExpiry(p) \/ OneStore(p) \/ OneInc(p)
    \/ \E p \in Procs : OneMapFault(p)
    \/ \E p \in Procs : Return(p)
    \/ Tick

SpecOne == InitOne /\ [][NextOne]_vars

\* concurrent callers that get, set, fetch and increment, under a fair
\* scheduler: a goroutine that can take a step is not left waiting for ever,
\* and a loader that was called returns; the runs are short against the
\* clock's tick, so entries written with a ttl stay live and those written
\* with ttl 0 read as expired and are evicted
InitLive ==
    /\ Constructed
    /\ active = Procs
    /\ rkey = <<>>
    /\ ridx = NotRouted

\* the steps of goroutine p inside a call it has made
Step(p) ==
    \/ ReadPanic(p) \/ WritePanic(p)
    \/ ReadStep(p)
    \/ WriteStep(p)
    \/ GetReturn(p) \/ SetReturn(p)
    \/ FetchAfterRead(p) \/ FetchLoadFailed(p) \/ FetchReturn(p)
    \/ FetchLoaded(p, SeedVal)
    \/ IncrLock(p) \/ IncrAfterRead(p) \/ IncrReturn(p)

\* the keys of these runs: the counter's key and the empty key
LiveKeys == {CounterKey, <<>>}

NextLive ==
    \/ \E p \in Procs, k \in LiveKeys : Get(p, k) \/ Fetch(p, k)
    \/ \E p \in Procs, k \in LiveKeys : Set(p, k, SeedVal)
    \/ \E p \in Procs, k \in LiveKeys : Incr(p, k, One64)
    \/ \E p \in Procs : Step(p)
    \/ \E p \in Procs : Return(p)

SpecLive == InitLive /\ [][NextLive]_vars /\ \A p \in Procs : WF_vars(Step(p))

\* the keys of the placement runs: "B", "1" and the Kelvin sign, which
\* ToLower turns into "b", "1" and "k"
PlaceKeys == {<<66>>, <<49>>, <<226, 132, 170>>}

\* concurrent callers get and set keys whose shard depends on ToLower
InitPlace ==
    /\ newMemoryCache
    /\ cmu = None
    /\ TTL \in {t \in TTLs : NewCacheOk(t)}
    /\ made = Made(TTL, "nil")
    /\ net = Zero64
    /\ rewritten = FALSE
    /\ one = NoStore
    /\ db = <<>>
    /\ clock = 0
    /\ crashed = FALSE
    /\ pc = [p \in Procs |-> "idle"]
    /\ call = [p \in Procs |-> NoCall]
    /\ loc = [p \in Procs |-> NoLoc]
    /\ pre = [p \in Procs |-> NoPre]
    /\ ops = 0
    /\ sumD = Zero64
    /\ expiries = FALSE
    /\ lastW = [k \in PlaceKeys |-> NoWrite]
    /\ active = Procs
    /\ rkey = <<>>
    /\ ridx = NotRouted

NextPlace ==
    \/ \E p \in Procs, k \in PlaceKeys : Get(p, k)
    \/ \E p \in Procs, k \in PlaceKeys : Set(p, k, SeedVal)
    \/ \E p \in Procs : ReadStep(p)
    \/ \E p \in Procs : WriteStep(p)
    \/ \E p \in Procs : GetReturn(p) \/ SetReturn(p)
    \/ \E p \in Procs : Return(p)
    \/ Tick

SpecPlace == InitPlace /\ [][NextPlace]_vars

\* a caller hands a key to keyToShard
Route ==
    /\ ridx = NotRouted
    /\ ridx' = keyToShard(rkey)
    /\ UNCHANGED <<storeVars, TTL, clock, active, rkey, made, one, db, callVars, ghostVars,
                   crashed, pc, loc>>

\* the next key to route
PickKey ==
    /\ ridx # NotRouted
    /\ rkey' \in ShardKeys
    /\ ridx' = NotRouted
    /\ UNCHANGED <<storeVars, TTL, clock, active, made, one, db, callVars, ghostVars,
                   crashed, pc, loc>>

InitRoute ==
    /\ Constructed
    /\ active = {}
    /\ rkey \in ShardKeys
    /\ ridx = NotRouted

NextRoute == Route \/ PickKey

SpecRoute == InitRoute /\ [][NextRoute]_vars

(* ------------------------------- claims -------------------------------- *)

\* the call goroutine p made has returned from operation op
Done(p, op) == pc[p] = "done" /\ call[p].op = op

\* the shard a key belongs to by the documented policy, told from its first
\* byte alone: a letter's index, upper and lower case alike, else the 'z' bucket
AsciiShard(c) ==
    IF c >= 97 /\ c <= 122 THEN c - 97
    ELSE IF c >= 65 /\ c <= 90 THEN c - 65
    ELSE 25

\* C8: keyToShard is total: every key, the empty key included, gets an index
\* in 0..25 without a fault, and the empty key gets the 'z' bucket, 25
C8_KeyToShardTotal ==
    ridx # NotRouted =>
        /\ ridx \in Shards
        /\ (rkey = <<>> => ridx = 25)

CallShard(p) == keyToShard(call[p].key)

\* the key of p's call had an entry when the call began
PreHas(p) == CallShard(p) # Fault /\ call[p].key \in DOMAIN pre[p].Dat[CallShard(p)]

\* that entry
PreEl(p) == pre[p].Dat[CallShard(p)][call[p].key]

\* that entry was unexpired when p's Read compared it with the clock
PreLive(p) == PreHas(p) /\ Before(TimeNow(loc[p].rnow), PreEl(p).expiresAt)

\* the key of p's call has an entry now
NowHas(p) == CallShard(p) # Fault /\ call[p].key \in DOMAIN Dat[CallShard(p)]

NowEl(p) == Dat[CallShard(p)][call[p].key]

\* the expiry of an entry written at clock w with a ttl: w + ttl, and the
\* never-expire sentinel time.Unix(1<<63-1, 0) for ttl 0
ExpiryOf(w, ttl) ==
    IF ttl = 0 THEN [sec |-> Add64(MaxInt64, UnixToInternal), frac |-> 0]
    ELSE [sec  |-> Add64(Add64(StartUnix, UnixToInternal),
                         ToWord64((w + ttl) \div TicksPerSecond)),
          frac |-> (w + ttl) % TicksPerSecond]

\* C1: once N concurrent Incr calls on one key, absent at first, have all
\* returned, with no other writer and no expired read in between, the key
\* holds the sum of the N deltas (in uint64 arithmetic)
C1_NoLostIncrement ==
    (ops > 0 /\ ~expiries /\ \A p \in Procs : pc[p] \in {"idle", "done"}) =>
        /\ CounterKey \in DOMAIN Dat[keyToShard(CounterKey)]
        /\ Dat[keyToShard(CounterKey)][CounterKey].dat = uint64ToBytes(sumD)

\* C1 witness: every caller has made an Incr call, all have returned, and no
\* read found the counter expired
C1_Witness ==
    /\ ops = MaxOps
    /\ ~expiries
    /\ \A p \in Procs : Done(p, "Incr")

\* C2: a Fetch on a key holding an unexpired entry returns the stored value
\* and no error, calls no loader and writes nothing
C2_FetchHitIsPure ==
    \A p \in active :
        (Done(p, "FetchWithTTL") /\ PreLive(p)) =>
            /\ loc[p].ret = PreEl(p).dat
            /\ loc[p].err = "nil"
            /\ loc[p].loads = 0
            /\ Dat = pre[p].Dat
            /\ KeyCount = pre[p].KeyCount

\* C2 witness: a Fetch has returned from a key that held an unexpired entry
C2_Witness == \E p \in active : Done(p, "FetchWithTTL") /\ PreLive(p)

\* C3 as stated: after a Fetch whose loader failed, the store and the key
\* counter are as they were before the call
C3_FailedLoadLeavesStore ==
    \A p \in active :
        (Done(p, "FetchWithTTL") /\ loc[p].lfail) =>
            /\ loc[p].err = "loader failed"
            /\ Dat = pre[p].Dat
            /\ KeyCount = pre[p].KeyCount

\* C3 amended: after a Fetch whose loader failed, the call returns the
\* loader's error, the key has no entry, and the store and the key counter
\* are as before the call, but for the expired entry of the key, which the
\* Fetch's Read has deleted, decrementing the key counter
C3_FailedLoadWritesNothing ==
    \A p \in active :
        (Done(p, "FetchWithTTL") /\ loc[p].lfail) =>
            /\ loc[p].err = "loader failed"
            /\ loc[p].loads = 1
            /\ ~NowHas(p)
            /\ IF PreHas(p)
               THEN /\ Dat = [pre[p].Dat EXCEPT ![CallShard(p)] = MapDelete(@, call[p].key)]
                    /\ KeyCount = Add64(pre[p].KeyCount, Ones64)
               ELSE /\ Dat = pre[p].Dat
                    /\ KeyCount = pre[p].KeyCount

\* C3 witness: a Fetch on a key holding an expired entry has returned the
\* loader's error
C3_Witness == \E p \in active : Done(p, "FetchWithTTL") /\ loc[p].lfail /\ PreHas(p)

\* C4: a Fetch that finds its key absent or expired calls the loader once;
\* when the loader returns v, the Fetch returns v and the key holds v with
\* expiry = (the time of the write) + ttl (the never-expire sentinel for ttl 0);
\* a Get before the expiry of a key written with ttl > 0 returns what was written
C4_FetchMissLoadsAndStores ==
    \A p \in active :
        /\ (Done(p, "FetchWithTTL") /\ ~PreLive(p)) =>
               /\ loc[p].loads = 1
               /\ ~loc[p].lfail =>
                   /\ loc[p].ret = loc[p].lval
                   /\ loc[p].err = "nil"
                   /\ NowHas(p)
                   /\ NowEl(p) = [expiresAt |-> ExpiryOf(loc[p].wnow, call[p].ttl),
                                  dat |-> loc[p].lval]
        /\ (Done(p, "Get") /\ lastW[call[p].key].set /\ lastW[call[p].key].ttl > 0
                /\ loc[p].rnow < lastW[call[p].key].w + lastW[call[p].key].ttl) =>
               (loc[p].err = "nil" /\ loc[p].ret = lastW[call[p].key].val)

\* C4 witness: a Fetch with a ttl has returned a loaded value for a key whose
\* entry had expired
C4_Witness ==
    \E p \in active :
        /\ Done(p, "FetchWithTTL")
        /\ PreHas(p)
        /\ ~PreLive(p)
        /\ ~loc[p].lfail
        /\ call[p].ttl > 0

\* C5: a Get on a key last written at clock w with ttl t >= 1 second returns
\* the written value and no error when its clock is below w + t, and a
\* not-found error with an empty value from w + t on; on a key never written
\* it returns not-found
C5_GetHonoursTTL ==
    \A p \in active :
        (Done(p, "Get") /\ CallShard(p) # Fault) =>
            LET lw == lastW[call[p].key]
            IN  /\ ~lw.set => (loc[p].err = "key not found" /\ loc[p].ret = <<>>)
                /\ (lw.set /\ lw.ttl >= TicksPerSecond) =>
                       IF loc[p].rnow < lw.w + lw.ttl
                       THEN loc[p].err = "nil" /\ loc[p].ret = lw.val
                       ELSE loc[p].err = "key not found" /\ loc[p].ret = <<>>

\* C5 witness: a Get has returned at exactly w + t for a key written with a
\* ttl t of a second
C5_Witness ==
    \E p \in active :
        /\ Done(p, "Get")
        /\ lastW[call[p].key].set
        /\ lastW[call[p].key].ttl >= TicksPerSecond
        /\ loc[p].rnow = lastW[call[p].key].w + lastW[call[p].key].ttl

\* C6: a Get on a key last written with ttl 0 is a hit at every clock value
C6_ZeroTTLNeverExpires ==
    \A p \in active :
        (Done(p, "Get") /\ lastW[call[p].key].set /\ lastW[call[p].key].ttl = 0) =>
            /\ loc[p].err = "nil"
            /\ loc[p].ret = lastW[call[p].key].val

\* C7: after a Set of a key, the second as well as the first, the key has one
\* entry, with the value and the expiry of that Set: (the time of the write)
\* + ttl (the never-expire sentinel for ttl 0); a Get that hits returns the
\* value of the last Set
C7_OverwriteReplaces ==
    \A p \in active :
        /\ Done(p, "SetWithTTL") =>
            /\ {i \in Shards : call[p].key \in DOMAIN Dat[i]} = {CallShard(p)}
            /\ NowEl(p) = [expiresAt |-> ExpiryOf(loc[p].wnow, call[p].ttl),
                           dat |-> call[p].val]
        /\ (Done(p, "Get") /\ loc[p].err = "nil") => loc[p].ret = lastW[call[p].key].val

\* C7 witness: a Set with a shorter ttl and another value has replaced an
\* unexpired entry
C7_Witness ==
    \E p \in active :
        /\ Done(p, "SetWithTTL")
        /\ PreHas(p)
        /\ PreEl(p).dat # call[p].val
        /\ call[p].ttl > 0
        /\ Before(NowEl(p).expiresAt, PreEl(p).expiresAt)

\* C10: SetWithTTL and FetchWithTTL with 0 < ttl < 1 second return a
\* configuration error and store nothing
C10_ShortTTLRejected ==
    \A p \in active :
        /\ (Done(p, "SetWithTTL") /\ call[p].ttl > 0 /\ call[p].ttl < TicksPerSecond) =>
               (loc[p].err = "invalid ttl" /\ Dat = pre[p].Dat)
        /\ (Done(p, "FetchWithTTL") /\ call[p].ttl > 0 /\ call[p].ttl < TicksPerSecond
                /\ ~PreLive(p) /\ ~loc[p].lfail) =>
               (loc[p].err = "invalid ttl" /\ ~NowHas(p))

\* C11: NewCache(t) returns an error when 0 < t < 1 second; when t = 0 or
\* t >= 1 second it returns no error and a cache with TTL t and an empty store
C11_NewCacheChecksTTL ==
    made.called =>
        IF made.t > 0 /\ made.t < TicksPerSecond
        THEN made.err # "nil"
        ELSE /\ made.err = "nil"
             /\ TTL = made.t
             /\ (ops = 0 => (Dat = EmptyDat /\ KeyCount = Zero64))

\* C11 witness: NewCache has refused a default TTL below a second
C11_Witness ==
    /\ made.called
    /\ made.t > 0
    /\ made.t < TicksPerSecond
    /\ made.err # "nil"

\* the entry the key of p's call held when the call began is unexpired for
\* the caller: written never to expire (ttl 0), or not yet at its expiry
PreUnexpired(p) == PreHas(p) /\ (PreEl(p).expiresAt = ExpiryOf(0, 0) \/ PreLive(p))

\* C12: in a sequential run, Incr(key, d) stores and returns d on an absent or
\* expired key and c + d on a key holding the unexpired counter c, and a Get
\* right after it (before the entry's expiry) decodes the value Incr returned
C12_IncrSequential ==
    \A p \in active :
        /\ Done(p, "Incr") =>
               /\ loc[p].err = "nil"
               /\ loc[p].n = IF PreUnexpired(p)
                             THEN Add64(bytesToUint64(PreEl(p).dat), call[p].d)
                             ELSE call[p].d
               /\ NowHas(p)
               /\ NowEl(p).dat = uint64ToBytes(loc[p].n)
        /\ (Done(p, "Get") /\ lastW[call[p].key].incr
                /\ (lastW[call[p].key].ttl = 0
                    \/ loc[p].rnow < lastW[call[p].key].w + lastW[call[p].key].ttl)) =>
               (loc[p].err = "nil" /\ loc[p].ret = lastW[call[p].key].val)

\* the number of entries the store holds
Entries == Cardinality({k \in Keys : \E i \in Shards : k \in DOMAIN Dat[i]})

\* C19 as stated: in a sequential run Stats reports the number of entries
\* the store holds
C19_StatsCountsEntries ==
    \A p \in active : Done(p, "Stats") => loc[p].n = ToWord64(Entries)

\* C19 amended: in a sequential run Stats reports the number of Writes
\* completed minus the number of evictions: 0 for a fresh cache, and the
\* number of entries as long as no Write has replaced an entry
C19_StatsCountsWrites ==
    \A p \in active :
        Done(p, "Stats") =>
            /\ loc[p].n = net
            /\ (ops = 0 => loc[p].n = Zero64)
            /\ (~rewritten => loc[p].n = ToWord64(Entries))

\* C19 witness: Stats has reported 2 after two Sets of one key
C19_Witness ==
    \E p \in active :
        /\ Done(p, "Stats")
        /\ rewritten
        /\ loc[p].n = <<0, 0, 0, 2>>
        /\ Entries = 1

HoldsNoLock(p) == \A i \in Shards : mu[i].w # p /\ p \notin mu[i].r

\* C13: while the loader of a FetchWithTTL runs, its caller holds no shard
\* lock, so another caller's Read or Write, on the fetched key too, finds the
\* lock it waits for free unless a third caller holds it
C13_LoaderRunsUnlocked ==
    \A p \in active :
        pc[p] = "loading" =>
            /\ HoldsNoLock(p)
            /\ \A q \in active \ {p} :
                   /\ pc[q] = "read" =>
                          mu[keyToShard(call[q].key)].w \in {None} \cup (active \ {p, q})
                   /\ pc[q] \in {"evict", "wlock"} =>
                          \/ mu[loc[q].idx] = FreeLock
                          \/ \E o \in active \ {p, q} :
                                 mu[loc[q].idx].w = o \/ o \in mu[loc[q].idx].r

\* C13 witness: while one caller's loader runs, another caller holds the
\* exclusive lock of the fetched key's shard, in the middle of its Write
C13_Witness ==
    \E p \in active, q \in active :
        /\ pc[p] = "loading"
        /\ pc[q] = "wstore"
        /\ loc[q].wkey = call[p].key
        /\ mu[keyToShard(call[p].key)].w = q

\* C14: when two FetchWithTTL calls of one key have both missed in their Read
\* before either stored a value, each calls the loader once, and when both
\* loaders succeed both values are written and the key is left with the one
\* written last
C14_NoSingleFlight ==
    \A p \in active, q \in active :
        (p # q /\ Done(p, "FetchWithTTL") /\ Done(q, "FetchWithTTL")
             /\ call[p].key = call[q].key /\ loc[p].raced) =>
            /\ loc[p].loads = 1
            /\ loc[q].loads = 1
            /\ (~loc[p].lfail /\ ~loc[q].lfail) =>
                   /\ loc[p].ret = loc[p].lval
                   /\ loc[q].ret = loc[q].lval
                   /\ rewritten
                   /\ NowHas(p)
                   /\ lastW[call[p].key].val \in {loc[p].lval, loc[q].lval}
                   /\ NowEl(p) = [expiresAt |-> ExpiryOf(lastW[call[p].key].w,
                                                         lastW[call[p].key].ttl),
                                  dat |-> lastW[call[p].key].val]

\* C14 witness: two racing Fetches of one key have returned two different
\* loaded values
C14_Witness ==
    \E p \in active, q \in active :
        /\ p # q
        /\ Done(p, "FetchWithTTL")
        /\ Done(q, "FetchWithTTL")
        /\ call[p].key = call[q].key
        /\ loc[p].raced
        /\ ~loc[p].lfail
        /\ ~loc[q].lfail
        /\ loc[p].ret # loc[q].ret

\* C15: in every interleaving, a Read that reports a hit with value v looked
\* up an entry with value v whose expiry (the time of a Write + its ttl) is
\* strictly later than the clock value the Read compared it with
C15_NoExpiredHit ==
    \A p \in active :
        (pc[p] \in {"afterRead", "done"} /\ loc[p].found) =>
            /\ loc[p].exists
            /\ loc[p].val = loc[p].el.dat
            /\ \E w \in 0..loc[p].rnow, t \in TTLs \ {0} :
                   /\ loc[p].el.expiresAt = ExpiryOf(w, t)
                   /\ loc[p].rnow < w + t
            /\ Done(p, "Get") => (loc[p].err = "nil" /\ loc[p].ret = loc[p].el.dat)

\* C15 witness: a Get has returned a hit on an entry whose writer has not
\* yet returned from its own call
C15_Witness ==
    \E p \in active, q \in active :
        /\ Done(p, "Get")
        /\ loc[p].found
        /\ pc[q] = "afterWrite"
        /\ loc[q].wkey = call[p].key

\* C18: whenever no operation is in progress, KeyCount is the number of
\* Writes completed minus the number of evictions, in every interleaving
C18_KeyCountExact ==
    (\A p \in Procs : pc[p] \in {"idle", "done"}) => KeyCount = net

\* p's call is a fetch through a backend that may fail, and has returned
BackendFetchDone(p) ==
    pc[p] = "done" /\ call[p].op \in {"OmniFetch", "OmniFetchWithTTL", "DbFetchWithTTL"}

\* C16: a fetch whose loader succeeded and whose backend write then failed
\* returns the loaded value and a nil error
C16_WriteFailureNotReturned ==
    \A p \in active :
        (BackendFetchDone(p) /\ loc[p].loads = 1 /\ ~loc[p].lfail /\ loc[p].wfail) =>
            /\ loc[p].ret = loc[p].lval
            /\ loc[p].err = "nil"

\* C17: a fetch whose backend read failed with an error other than
\* key-not-found returns a non-nil error and has called no loader
C17_ReadFailureSurfaced ==
    \A p \in active :
        (BackendFetchDone(p) /\ loc[p].rfail) =>
            /\ loc[p].err # "nil"
            /\ loc[p].loads = 0

\* C22: a Read that hits changes nothing: the maps, with every entry's value
\* and expiry, and KeyCount are as before the call, and the call has taken the
\* shard's shared lock only
C22_HitChangesNothing ==
    \A p \in active :
        (Done(p, "Get") /\ loc[p].found) =>
            /\ Dat = pre[p].Dat
            /\ KeyCount = pre[p].KeyCount
            /\ ~loc[p].xl
            /\ HoldsNoLock(p)

\* C22 witness: a Get has returned a hit
C22_Witness == \E p \in active : Done(p, "Get") /\ loc[p].found /\ PreLive(p)

\* C25: a Read never removes an unexpired entry: the entry its delete step
\* takes out of the map is expired at that step
C25_EvictsOnlyExpired ==
    \A p \in active :
        loc[p].delHad => ~Before(TimeNow(loc[p].delAt), loc[p].delEl.expiresAt)

\* C27: KeyCount never wraps below zero, and when two Reads have evicted the
\* same expired entry the key is gone and KeyCount is one less than before
C27_EvictedOnce ==
    /\ KeyCount[1] < 32768
    /\ \A p \in active, q \in active :
           (p # q /\ Done(p, "Get") /\ Done(q, "Get") /\ call[p].key = call[q].key
                /\ loc[p].xl /\ loc[q].xl /\ loc[p].el = loc[q].el) =>
               /\ ~NowHas(p)
               /\ Add64(KeyCount, One64) \in {pre[p].KeyCount, pre[q].KeyCount}

\* the goroutines inside an exclusive section of shard i: between Lock and
\* Unlock of Write or of Read's eviction
InExclusive(i) == {p \in active : pc[p] \in {"wstore", "winc", "del", "dec"} /\ loc[p].idx = i}

\* the goroutines at their lookup under the shared lock of shard i
InShared(i) == {p \in active : pc[p] = "lookup" /\ loc[p].idx = i}

\* C28: for each shard, at most one operation is inside an exclusive section,
\* and none is while another is at its lookup under the shared lock
C28_ShardMutualExclusion ==
    \A i \in Shards :
        /\ Cardinality(InExclusive(i)) <= 1
        /\ InExclusive(i) # {} => InShared(i) = {}
        /\ \A p \in InExclusive(i) : mu[i] = [r |-> {}, w |-> p]
        /\ \A p \in InShared(i) : p \in mu[i].r /\ mu[i].w = None

\* C28 witness: one caller is inside the exclusive section of a shard while
\* another waits for the same shard's lock
C28_Witness ==
    \E p \in active, q \in active :
        /\ pc[p] = "wstore"
        /\ pc[q] \in {"wlock", "read", "evict"}
        /\ keyToShard(call[q].key) = loc[p].idx

\* the shards whose lock goroutine p holds, shared or exclusive
LocksHeld(p) == {i \in Shards : mu[i].w = p \/ p \in mu[i].r}

\* C21: no operation holds the locks of two shards at once, and no operation
\* waits for a lock held by an operation on a key of a different shard
C21_NoCrossShardWait ==
    /\ \A p \in active : Cardinality(LocksHeld(p)) <= 1
    /\ \A p, q \in active :
           (p # q /\ pc[p] = "ilock" /\ cmu = q) => CallShard(p) = CallShard(q)

\* C26: Incr(k, d) and Set(k, x) that ran concurrently and met no expired
\* entry leave k holding x + d (the Set came first) or x (the Incr came first)
C26_IncrAtomicWithSet ==
    \A p, q \in active :
        (/\ Done(p, "Incr") /\ Done(q, "SetWithTTL")
         /\ call[p].key = call[q].key
         /\ ~expiries)
        => /\ NowHas(p)
           /\ NowEl(p).dat \in
                  {call[q].val,
                   uint64ToBytes(Add64(bytesToUint64(call[q].val), call[p].d))}

\* the value of the last pair of batch b that has key k
RECURSIVE LastOf(_, _, _)
LastOf(b, k, i) == IF b[i][1] = k THEN b[i][2] ELSE LastOf(b, k, i - 1)

\* C23: when SetBatchWithTTL, run with no other call, returns nil, every key
\* of the batch is readable and holds the value of its last occurrence
C23_BatchSetsEveryKey ==
    \A p \in active :
        (Done(p, "DbSetBatchWithTTL") /\ loc[p].err = "nil" /\ ops = 1) =>
            \A i \in 1..Len(call[p].batch) :
                LET k == call[p].batch[i][1]
                IN  /\ DbLive(k)
                    /\ db[k].dat = LastOf(call[p].batch, k, Len(call[p].batch))

\* C24: once concurrent Incr calls on one key of the badger-backed cache,
\* absent at first, have all returned without error, the key holds the sum
\* of their deltas
C24_DbNoLostIncrement ==
    \A p, q \in active :
        (/\ p # q /\ Done(p, "DbIncr") /\ Done(q, "DbIncr")
         /\ call[p].key = call[q].key
         /\ loc[p].err = "nil" /\ loc[q].err = "nil")
        => /\ DbLive(call[p].key)
           /\ db[call[p].key].dat = uint64ToBytes(Add64(call[p].d, call[q].d))

\* C29: in the single-lock MemoryCache no two goroutines are inside their
\* critical section at once, unless both only hold the lock shared
C29_OneLockExcludes ==
    \A p, q \in active :
        (p # q /\ OneInside(p) /\ OneInside(q)) =>
            loc[p].m.mu.w = None /\ loc[q].m.mu.w = None

\* C30: Read and Write never release a lock they do not hold in that mode,
\* and hold no lock once they have returned
C30_LocksPaired ==
    \A p \in active :
        /\ ~loc[p].badUnlock
        /\ pc[p] \in {"afterRead", "afterWrite", "done"} =>
               HoldsNoLock(p) /\ loc[p].m.mu = FreeLock

\* C31: under fair scheduling every call a goroutine has made comes to its
\* end: it returns, or the process has ended in the panic of an empty key
C31_EveryCallEnds ==
    \A p \in Procs : (pc[p] # "idle") ~> (pc[p] \in {"done", "idle"} \/ crashed)

\* C31 witness: an Incr holds the cache-level mutex and a shard lock while
\* another Incr waits for the mutex
C31_Witness ==
    \E p, q \in active :
        /\ pc[p] = "ilock" /\ cmu = q
        /\ pc[q] \in {"wstore", "winc"} /\ mu[loc[q].idx].w = q

\* C32: every key stored in the map of shard i routes to shard i, so no key
\* is in two shards, and a goroutine holds the lock of no shard but the one
\* its key routes to
C32_ShardPlacement ==
    /\ \A i \in Shards : \A k \in DOMAIN Dat[i] : keyToShard(k) = i
    /\ \A i, j \in Shards : i # j => DOMAIN Dat[i] \cap DOMAIN Dat[j] = {}
    /\ \A p \in active : LocksHeld(p) \subseteq {CallShard(p)}

\* C32 witness: keys are stored in the shards of "b" and of "k", which their
\* first bytes alone would not give, while a goroutine holds a shard lock
C32_Witness ==
    /\ <<66>> \in DOMAIN Dat[1]
    /\ <<226, 132, 170>> \in DOMAIN Dat[10]
    /\ \E p \in active : LocksHeld(p) # {}

\* the entry the Write of goroutine p's Set stores: its value with the expiry
\* computed from its own ttl and clock reading
WrittenBy(p) ==
    [expiresAt |-> ExpiresAt(TimeNow(loc[p].wnow), call[p].ttl), dat |-> call[p].val]

\* C33: a stored entry is the whole (value, expiresAt) pair of the Write
\* that stored last, and after two concurrent Sets of one key the key holds
\* the pair of one of them, never the value of one with the expiry of the other
C33_WholeEntryOfLastWrite ==
    /\ \A k \in SomeKeys :
           k \in DOMAIN Dat[keyToShard(k)] =>
               /\ lastW[k].set
               /\ Dat[keyToShard(k)][k] =
                      [expiresAt |-> ExpiresAt(TimeNow(lastW[k].w), lastW[k].ttl),
                       dat |-> lastW[k].val]
    /\ \A p, q \in active :
           (/\ p # q /\ Done(p, "SetWithTTL") /\ Done(q, "SetWithTTL")
            /\ call[p].key = call[q].key /\ NowHas(p))
           => NowEl(p) \in {WrittenBy(p), WrittenBy(q)}

\* C33 witness: two Sets of one key with different values and different
\* expiries have both returned
C33_Witness ==
    \E p, q \in active :
        /\ p # q /\ Done(p, "SetWithTTL") /\ Done(q, "SetWithTTL")
        /\ call[p].key = call[q].key /\ NowHas(p)
        /\ call[p].val # call[q].val
        /\ WrittenBy(p).expiresAt # WrittenBy(q).expiresAt

\* goroutine p's Fetch missed on a key that was not in the map, and the Set
\* of another goroutine q on that key has returned
FetchMissedThenSet(p, q) ==
    /\ p # q
    /\ call[p].op = "FetchWithTTL" /\ ~loc[p].exists /\ ~loc[p].lfail
    /\ Done(q, "SetWithTTL")
    /\ call[p].key = call[q].key

\* C34 as claimed: after a Fetch that missed has returned, the key still
\* holds the value of a Set that wrote it after the Fetch's Read
C34_FetchKeepsNewerSet ==
    \A p, q \in active :
        (FetchMissedThenSet(p, q) /\ Done(p, "FetchWithTTL") /\ loc[p].loads > 0) =>
            NowHas(p) /\ NowEl(p).dat = call[q].val

\* C34 amended: the write-back of a Fetch that missed stores the loaded
\* value whatever the key holds by then, the value of a Set that wrote in
\* between included: the store that comes last wins
C34_WriteBackReplaces ==
    \A p \in active :
        (call[p].op = "FetchWithTTL" /\ pc[p] = "winc") =>
            /\ NowHas(p)
            /\ NowEl(p) = [expiresAt |-> ExpiresAt(TimeNow(loc[p].wnow), call[p].ttl),
                           dat |-> loc[p].lval]

\* C34 witness: a Fetch that missed has just stored its loaded value over
\* the different value of a Set that wrote the key after the Fetch's Read
C34_Witness ==
    \E p, q \in active :
        /\ FetchMissedThenSet(p, q)
        /\ pc[p] = "winc"
        /\ call[q].val # loc[p].lval
        /\ NowEl(p).dat = loc[p].lval

\* c + d mod 2^64 on 16-bit limbs, column by column from the right
WrapSum(c, d) ==
    LET s4 == c[4] + d[4]
        s3 == c[3] + d[3] + (s4 \div LimbBase)
        s2 == c[2] + d[2] + (s3 \div LimbBase)
        s1 == c[1] + d[1] + (s2 \div LimbBase)
    IN  <<s1 % LimbBase, s2 % LimbBase, s3 % LimbBase, s4 % LimbBase>>

\* the counter goroutine p's Incr found: what its Read returned, or 0
FoundCounter(p) == IF loc[p].found THEN bytesToUint64(loc[p].val) ELSE Zero64

\* C35: Incr stores and returns (c + d) mod 2^64 for the counter c it found,
\* and reports no error when the sum wraps
C35_IncrWraps ==
    \A p \in active :
        /\ (call[p].op = "Incr" /\ pc[p] = "afterWrite") =>
               /\ NowHas(p)
               /\ NowEl(p).dat = uint64ToBytes(WrapSum(FoundCounter(p), call[p].d))
        /\ Done(p, "Incr") =>
               /\ loc[p].n = WrapSum(FoundCounter(p), call[p].d)
               /\ loc[p].err = "nil"

\* C35 witness: an Incr of a counter that was not 0 has returned 0: the sum
\* was 2^64 and wrapped
C35_Witness ==
    \E p \in active :
        /\ Done(p, "Incr")
        /\ loc[p].found
        /\ FoundCounter(p) # Zero64
        /\ call[p].d # Zero64
        /\ loc[p].n = Zero64

====
